---- MODULE Spec2Model ----
(***************************************************************************)
(* The backtesting engine of NATGAS-trader                                 *)
(* (src/backtesting/core/backtest_engine.py, class BacktestEngine) as a    *)
(* state machine.                                                          *)
(*                                                                         *)
(* Numbers.  The engine computes in floating point; the model computes the *)
(* same expressions exactly, in fixed point:                               *)
(*   - a quoted price is a whole number of dollars;                        *)
(*   - slippage_pct is a number of thousandths (0.001 is 1), so an         *)
(*     executed price quoted * (1 +/- slippage_pct) is a whole number of   *)
(*     thousandths of a dollar ("mills"); trade values, the commission and *)
(*     current_capital are in mills as well;                               *)
(*   - the stop percentages are whole percents (0.05 is 5), so the stop    *)
(*     levels entry * (1 -/+ pct) and quoted * (1 - trailing_stop_pct) are *)
(*     whole numbers of 1/100000 dollar;                                   *)
(*   - total_signal and confidence are in tenths (0.5 is 5).               *)
(* A Python None is the empty sequence <<>>, a present value x is <<x>>.   *)
(* A Python dict is a function whose DOMAIN is its key set.                *)
(***************************************************************************)
EXTENDS Integers, Sequences, FiniteSets, TLC

VARIABLES
    config,                  \* self.config and the parameters read from it
    start_date, end_date,    \* arguments of run_backtest
    price_data, signals,     \* arguments of run_backtest, rows dated <= current_date
    current_capital,         \* self.current_capital (mills)
    positions,               \* self.positions
    trades,                  \* self.trades
    trade_pnl,               \* the pnl attribute set on Trade objects, by index in self.trades
    daily_portfolio_values,  \* self.daily_portfolio_values
    active_stops,            \* self.active_stops
    current_date,            \* run_backtest's loop variable
    signal, ung_price, kold_price,  \* locals of _process_day
    result,                  \* the BacktestResult returned (<<>> before the return)
    pc,                      \* position in run_backtest / _process_day
    first_result,            \* what the caller got from the call before this one (<<>> if none)
    other_engine,            \* a second BacktestEngine instance of the caller (<<>> if none)
    raw_signals,             \* what generate_signals_for_period returned to the caller
    min_consecutive_days     \* argument of apply_signal_confirmation (<<>> before the call)

vars == <<config, start_date, end_date, price_data, signals, current_capital,
          positions, trades, daily_portfolio_values, active_stops, current_date,
          signal, ung_price, kold_price, result, pc, trade_pnl, first_result,
          other_engine, raw_signals, min_consecutive_days>>

\* What the caller has from the signal generator.
upstream == <<raw_signals, min_consecutive_days>>
\* What belongs to the caller and not to this engine's run.
caller == <<first_result, other_engine, upstream>>

\* ------------------------------------------------------------------ bounds
\* Number of calendar days a run may cover (end_date - start_date + 1 <= MaxDays).
MaxDays == 3
\* Number of calendar days a run over the trailing-stop price path may cover:
\* the entry day and the three days of the path.
ScenarioDays == 4

\* ------------------------------------------------------------ input domains
\* Quoted prices of the primary instrument.  With an entry at 100 (executed
\* 100.1): 94 is below the 5% stop-loss (95.095), 112 and 115 are in the
\* trailing-activation zone [110.11, 115.115), 116 is above the take-profit.
UngQuotes == {94, 100, 112, 115, 116}
\* Quoted prices of the inverse instrument: with an entry at 50 (executed
\* 50.05), 47 is below the stop-loss (47.5475).
KoldQuotes == {47, 50}
\* The quoted prices of the primary instrument on the trailing-stop price
\* path: an entry at 100, then 110, 115 and 108.
PathQuotes == {100, 108, 110, 115}

None == <<>>
Some(x) == <<x>>
IsNone(o) == o = <<>>
Val(o) == o[1]

\* The engine's parameters: BacktestEngine.__init__ reads them from the config
\* with these defaults.
DefaultConfig ==
    [ initial_capital       |-> 100000,   \* dollars
      base_position_size    |-> 1000,     \* dollars
      max_position_size     |-> 5000,     \* dollars
      min_position_size     |-> 100,      \* dollars
      default_stop_loss_pct |-> 5,        \* percent
      trailing_stop_pct     |-> 3,        \* percent
      take_profit_pct       |-> 15,       \* percent
      commission_per_trade  |-> 1000,     \* mills (1.0 dollar)
      slippage_pct          |-> 1,        \* thousandths (0.001)
      symbol                |-> "UNG",
      inverse_symbol        |-> "KOLD",
      \* Parameters of the config the engine does not read (BacktestConfig's
      \* defaults): the signal generator's thresholds and weights, in tenths.
      buy_threshold         |-> 3,
      sell_threshold        |-> -3,
      temperature_weight    |-> 4,
      inventory_weight      |-> 4,
      storm_weight          |-> 2 ]

\* create_aggressive_config: the defaults with lower thresholds, wider stops
\* and larger orders.
AggressiveConfig ==
    [DefaultConfig EXCEPT !.buy_threshold = 2, !.sell_threshold = -2,
                          !.default_stop_loss_pct = 8, !.take_profit_pct = 20,
                          !.base_position_size = 2000, !.max_position_size = 8000,
                          !.trailing_stop_pct = 5]

\* The defaults with an initial capital equal to the base position size.
LowCapitalConfig == [DefaultConfig EXCEPT !.initial_capital = 1000]

\* The defaults with a base position size equal to the minimum position size
\* and an initial capital of one and a half times that: the orders are of one
\* to four shares, so that each of the three rejections of an order happens.
SmallOrderConfig ==
    [DefaultConfig EXCEPT !.initial_capital = 150, !.base_position_size = 100]

\* The defaults with an initial capital of zero.
ZeroCapitalConfig == [DefaultConfig EXCEPT !.initial_capital = 0]

\* The signals the upstream generator emits for a date.
SignalRows(d) ==
    { [timestamp |-> d, action |-> "HOLD", symbol |-> "", total_signal |-> 0,
       confidence |-> 0],
      [timestamp |-> d, action |-> "BUY", symbol |-> "UNG", total_signal |-> 5,
       confidence |-> 17],
      [timestamp |-> d, action |-> "BUY", symbol |-> "KOLD", total_signal |-> -10,
       confidence |-> 20] }

\* ------------------------------------------------------------------ helpers
Min(a, b) == IF a <= b THEN a ELSE b
Abs(a) == IF a < 0 THEN -a ELSE a

\* del d[k]
DictDel(d, k) == [x \in (DOMAIN d) \ {k} |-> d[x]]
\* d[k] = v
DictSet(d, k, v) == [x \in (DOMAIN d) \cup {k} |-> IF x = k THEN v ELSE d[x]]

\* The engine's mutable state as one value, so that the methods compose.
Engine ==
    [ current_capital |-> current_capital, positions |-> positions,
      trades |-> trades, active_stops |-> active_stops ]

SetEngine(e) ==
    /\ current_capital' = e.current_capital
    /\ positions' = e.positions
    /\ trades' = e.trades
    /\ active_stops' = e.active_stops

\* {}
EmptyDict == [x \in {} |-> x]

\* A reset that keeps the trade log of the run before.
reset_state_keeps_trades ==
    [ current_capital |-> config.initial_capital * 1000,
      positions |-> EmptyDict, trades |-> trades, active_stops |-> EmptyDict ]

\* _reset_state
reset_state ==
    [ current_capital |-> config.initial_capital * 1000,
      positions |-> EmptyDict, trades |-> << >>, active_stops |-> EmptyDict ]

\* ------------------------------------------------------------ price lookup
\* The rows of a price frame that satisfy a filter, in frame order.
RowsOn(price_df, d) == SelectSeq(price_df, LAMBDA r : r.timestamp = d)
RowsUpTo(price_df, d) == SelectSeq(price_df, LAMBDA r : r.timestamp <= d)

\* A price lookup that, with no row dated <= d, takes the first row of the frame.
get_price_for_date_backfills(price_df, d) ==
    IF RowsOn(price_df, d) # << >>
    THEN Some(RowsOn(price_df, d)[1].price)
    ELSE IF RowsUpTo(price_df, d) # << >>
         THEN Some(RowsUpTo(price_df, d)[Len(RowsUpTo(price_df, d))].price)
         ELSE IF price_df # << >> THEN Some(price_df[1].price) ELSE None

\* _get_price_for_date: the price dated d, else the last row dated <= d, else None.
get_price_for_date(price_df, d) ==
    IF RowsOn(price_df, d) # << >>
    THEN Some(RowsOn(price_df, d)[1].price)
    ELSE IF RowsUpTo(price_df, d) # << >>
         THEN Some(RowsUpTo(price_df, d)[Len(RowsUpTo(price_df, d))].price)
         ELSE None

\* A signal lookup that falls back, like the price lookup, on the most recent
\* signal dated before d.
get_signal_for_date_carries_over(sigs, d) ==
    IF SelectSeq(sigs, LAMBDA s : s.timestamp = d) # << >>
    THEN Some(SelectSeq(sigs, LAMBDA s : s.timestamp = d)[1])
    ELSE IF SelectSeq(sigs, LAMBDA s : s.timestamp <= d) # << >>
    THEN Some(SelectSeq(sigs, LAMBDA s : s.timestamp <= d)
                 [Len(SelectSeq(sigs, LAMBDA s : s.timestamp <= d))])
    ELSE None

\* A signal lookup that takes the last signal dated d.
get_signal_for_date_last(sigs, d) ==
    IF SelectSeq(sigs, LAMBDA s : s.timestamp = d) # << >>
    THEN Some(SelectSeq(sigs, LAMBDA s : s.timestamp = d)
                 [Len(SelectSeq(sigs, LAMBDA s : s.timestamp = d))])
    ELSE None

\* _get_signal_for_date: the first signal dated d, else None.
get_signal_for_date(sigs, d) ==
    IF SelectSeq(sigs, LAMBDA s : s.timestamp = d) # << >>
    THEN Some(SelectSeq(sigs, LAMBDA s : s.timestamp = d)[1])
    ELSE None

\* The quoted price _check_stop_losses, _calculate_portfolio_value and
\* _close_all_positions pick for a symbol (None for an unknown symbol).
PriceOf(sym, ung, kold) ==
    IF sym = config.symbol THEN ung
    ELSE IF sym = config.inverse_symbol THEN kold
    ELSE None

\* --------------------------------------------------------------- portfolio
\* A portfolio value that leaves the open positions out.
calculate_portfolio_value_cash_only(e, ung, kold) == e.current_capital

RECURSIVE SumOver(_, _)
SumOver(S, f) ==
    IF S = {} THEN 0
    ELSE LET x == CHOOSE y \in S : TRUE IN f[x] + SumOver(S \ {x}, f)

\* _calculate_portfolio_value (mills): cash plus quantity * quoted price of
\* every position in one of the two configured symbols.
calculate_portfolio_value(e, ung, kold) ==
    e.current_capital
    + SumOver({s \in DOMAIN e.positions : s \in {config.symbol, config.inverse_symbol}},
              [s \in DOMAIN e.positions |->
                  e.positions[s].quantity * PriceOf(s, ung, kold) * 1000])

\* ------------------------------------------------------------------- close
\* A close that does not charge the commission.
close_position_no_commission(e, sym, date, current_price, reason) ==
    IF sym \notin DOMAIN e.positions THEN e
    ELSE LET position == e.positions[sym]
             actual_price == current_price * (1000 - config.slippage_pct)
             actual_value == position.quantity * actual_price
             trade == [ timestamp |-> date, symbol |-> sym, action |-> "SELL",
                        quantity |-> position.quantity, price |-> actual_price,
                        value |-> actual_value, signal_strength |-> 0,
                        confidence |-> 0, reason |-> reason ]
         IN [ trades |-> Append(e.trades, trade),
              current_capital |-> e.current_capital + actual_value,
              positions |-> DictDel(e.positions, sym),
              active_stops |-> DictDel(e.active_stops, sym) ]

\* A close that files its trade at the head of the log.
close_position_prepends(e, sym, date, current_price, reason) ==
    IF sym \notin DOMAIN e.positions THEN e
    ELSE LET position == e.positions[sym]
             actual_price == current_price * (1000 - config.slippage_pct)
             actual_value == position.quantity * actual_price
             trade == [ timestamp |-> date, symbol |-> sym, action |-> "SELL",
                        quantity |-> position.quantity, price |-> actual_price,
                        value |-> actual_value, signal_strength |-> 0,
                        confidence |-> 0, reason |-> reason ]
         IN [ trades |-> <<trade>> \o e.trades,
              current_capital |->
                  e.current_capital + actual_value - config.commission_per_trade,
              positions |-> DictDel(e.positions, sym),
              active_stops |-> DictDel(e.active_stops, sym) ]

\* A close that forgets the stop: the position goes, its active stop stays.
close_position_keeps_stop(e, sym, date, current_price, reason) ==
    IF sym \notin DOMAIN e.positions THEN e
    ELSE LET position == e.positions[sym]
             actual_price == current_price * (1000 - config.slippage_pct)
             actual_value == position.quantity * actual_price
             trade == [ timestamp |-> date, symbol |-> sym, action |-> "SELL",
                        quantity |-> position.quantity, price |-> actual_price,
                        value |-> actual_value, signal_strength |-> 0,
                        confidence |-> 0, reason |-> reason ]
         IN [ trades |-> Append(e.trades, trade),
              current_capital |->
                  e.current_capital + actual_value - config.commission_per_trade,
              positions |-> DictDel(e.positions, sym),
              active_stops |-> e.active_stops ]

\* A close that sells all but one share and drops the position.
close_position_partial(e, sym, date, current_price, reason) ==
    IF sym \notin DOMAIN e.positions THEN e
    ELSE LET position == e.positions[sym]
             actual_price == current_price * (1000 - config.slippage_pct)
             actual_value == (position.quantity - 1) * actual_price
             trade == [ timestamp |-> date, symbol |-> sym, action |-> "SELL",
                        quantity |-> position.quantity - 1, price |-> actual_price,
                        value |-> actual_value, signal_strength |-> 0,
                        confidence |-> 0, reason |-> reason ]
         IN [ trades |-> Append(e.trades, trade),
              current_capital |->
                  e.current_capital + actual_value - config.commission_per_trade,
              positions |-> DictDel(e.positions, sym),
              active_stops |-> DictDel(e.active_stops, sym) ]

\* A close that sells at the quoted price, without slippage.
close_position_no_slippage(e, sym, date, current_price, reason) ==
    IF sym \notin DOMAIN e.positions THEN e
    ELSE LET position == e.positions[sym]
             actual_price == current_price * 1000
             actual_value == position.quantity * actual_price
             trade == [ timestamp |-> date, symbol |-> sym, action |-> "SELL",
                        quantity |-> position.quantity, price |-> actual_price,
                        value |-> actual_value, signal_strength |-> 0,
                        confidence |-> 0, reason |-> reason ]
         IN [ trades |-> Append(e.trades, trade),
              current_capital |->
                  e.current_capital + actual_value - config.commission_per_trade,
              positions |-> DictDel(e.positions, sym),
              active_stops |-> DictDel(e.active_stops, sym) ]

\* A close that fills a stop-loss exit at the stop level instead of the day's
\* quoted price.
close_position_at_stop_level(e, sym, date, current_price, reason) ==
    IF sym \notin DOMAIN e.positions THEN e
    ELSE LET position == e.positions[sym]
             actual_price ==
                 IF reason = "STOP_LOSS" /\ sym \in DOMAIN e.active_stops
                 THEN e.active_stops[sym].stop_loss_price \div 100
                 ELSE current_price * (1000 - config.slippage_pct)
             actual_value == position.quantity * actual_price
             trade == [ timestamp |-> date, symbol |-> sym, action |-> "SELL",
                        quantity |-> position.quantity, price |-> actual_price,
                        value |-> actual_value, signal_strength |-> 0,
                        confidence |-> 0, reason |-> reason ]
         IN [ trades |-> Append(e.trades, trade),
              current_capital |->
                  e.current_capital + actual_value - config.commission_per_trade,
              positions |-> DictDel(e.positions, sym),
              active_stops |-> DictDel(e.active_stops, sym) ]

\* _close_position: sell the whole position at quoted * (1 - slippage_pct),
\* add the proceeds, deduct the commission, drop the position and its stop.
close_position(e, sym, date, current_price, reason) ==
    IF sym \notin DOMAIN e.positions THEN e
    ELSE LET position == e.positions[sym]
             actual_price == current_price * (1000 - config.slippage_pct)
             actual_value == position.quantity * actual_price
             trade == [ timestamp |-> date, symbol |-> sym, action |-> "SELL",
                        quantity |-> position.quantity, price |-> actual_price,
                        value |-> actual_value, signal_strength |-> 0,
                        confidence |-> 0, reason |-> reason ]
         IN [ trades |-> Append(e.trades, trade),
              current_capital |->
                  e.current_capital + actual_value - config.commission_per_trade,
              positions |-> DictDel(e.positions, sym),
              active_stops |-> DictDel(e.active_stops, sym) ]

\* -------------------------------------------------------------------- stops
\* A stop setup that takes the levels from the quoted price of the entry,
\* entry_price / (1 + slippage_pct), instead of the executed price.
setup_stop_loss_from_quote(e, sym, entry_price, entry_date) ==
    LET quoted == (entry_price \div (1000 + config.slippage_pct)) * 1000
    IN [ e EXCEPT !.active_stops = DictSet(e.active_stops, sym,
           [ entry_price |-> entry_price,
             stop_loss_price |-> quoted * (100 - config.default_stop_loss_pct),
             take_profit_price |-> quoted * (100 + config.take_profit_pct),
             entry_date |-> entry_date,
             trailing_stop |-> FALSE,
             trailing_stop_price |-> None ]) ]

\* _setup_stop_loss: stop levels in 1/100000 dollar, entry_price in mills.
setup_stop_loss(e, sym, entry_price, entry_date) ==
    [ e EXCEPT !.active_stops = DictSet(e.active_stops, sym,
        [ entry_price |-> entry_price,
          stop_loss_price |-> entry_price * (100 - config.default_stop_loss_pct),
          take_profit_price |-> entry_price * (100 + config.take_profit_pct),
          entry_date |-> entry_date,
          trailing_stop |-> FALSE,
          trailing_stop_price |-> None ]) ]

\* _activate_trailing_stop
activate_trailing_stop(e, sym, current_price) ==
    IF sym \notin DOMAIN e.active_stops THEN e
    ELSE [ e EXCEPT !.active_stops[sym].trailing_stop = TRUE,
                    !.active_stops[sym].trailing_stop_price =
                        Some(current_price * 1000 * (100 - config.trailing_stop_pct)) ]

\* A ratchet that follows the price down as well as up.
ratchet_follows_price(stop_info, current_price) ==
    current_price * 1000 * (100 - config.trailing_stop_pct)

\* The ratchet of _update_trailing_stop: the level after seeing current_price;
\* stop_info.get('trailing_stop_price', 0) is 0 when the key is absent.
ratchet(stop_info, current_price) ==
    LET new_trailing_price == current_price * 1000 * (100 - config.trailing_stop_pct)
        old == IF IsNone(stop_info.trailing_stop_price) THEN 0
               ELSE Val(stop_info.trailing_stop_price)
    IN IF new_trailing_price > old THEN new_trailing_price ELSE old

\* An update that leaves the level where the activation put it.
update_trailing_stop_keeps_level(e, sym, current_price, date) ==
    IF sym \notin DOMAIN e.active_stops THEN e
    ELSE IF current_price * 100000 <= Val(e.active_stops[sym].trailing_stop_price)
    THEN close_position(e, sym, date, current_price, "TRAILING_STOP")
    ELSE e

\* _update_trailing_stop: ratchet, then close when the price is at or below the level.
update_trailing_stop(e, sym, current_price, date) ==
    IF sym \notin DOMAIN e.active_stops THEN e
    ELSE LET level == ratchet(e.active_stops[sym], current_price)
             e1 == [e EXCEPT !.active_stops[sym].trailing_stop_price = Some(level)]
         IN IF current_price * 100000 <= level
            THEN close_position(e1, sym, date, current_price, "TRAILING_STOP")
            ELSE e1

\* An activation test that measures the profit from the quoted price of the
\* entry, entry_price / (1 + slippage_pct), instead of the executed price.
profit_reached_from_quote(stop_info, current_price) ==
    /\ stop_info.entry_price # 0
    /\ (current_price * (1000 + config.slippage_pct) - stop_info.entry_price) * 10
          >= stop_info.entry_price

\* The trailing-stop activation test of _check_stop_losses:
\* (current_price - entry_price) / entry_price >= 0.10, entry_price in mills.
profit_reached(stop_info, current_price) ==
    /\ stop_info.entry_price # 0
    /\ (current_price * 1000 - stop_info.entry_price) * 10 >= stop_info.entry_price

\* A stop check that looks at the active trailing stop before the stop-loss
\* and the take-profit.
check_stop_trailing_first(e, sym, date, ung, kold) ==
    IF sym \notin DOMAIN e.active_stops THEN e
    ELSE IF sym \notin DOMAIN e.positions
    THEN [e EXCEPT !.active_stops = DictDel(e.active_stops, sym)]
    ELSE LET stop_info == e.active_stops[sym]
             current_price == PriceOf(sym, ung, kold)
         IN IF stop_info.trailing_stop
               /\ current_price * 100000 <= Val(stop_info.trailing_stop_price)
            THEN close_position(e, sym, date, current_price, "TRAILING_STOP")
            ELSE IF current_price * 100000 <= stop_info.stop_loss_price
            THEN close_position(e, sym, date, current_price, "STOP_LOSS")
            ELSE IF current_price * 100000 >= stop_info.take_profit_price
            THEN close_position(e, sym, date, current_price, "TAKE_PROFIT")
            ELSE LET e1 == IF ~stop_info.trailing_stop
                              /\ profit_reached(stop_info, current_price)
                           THEN activate_trailing_stop(e, sym, current_price)
                           ELSE e
                 IN IF e1.active_stops[sym].trailing_stop
                    THEN update_trailing_stop(e1, sym, current_price, date)
                    ELSE e1

\* One iteration of the loop of _check_stop_losses, for the entry of sym in the
\* snapshot list(self.active_stops.items()).
check_stop(e, sym, date, ung, kold) ==
    IF sym \notin DOMAIN e.active_stops THEN e
    ELSE IF sym \notin DOMAIN e.positions
    THEN [e EXCEPT !.active_stops = DictDel(e.active_stops, sym)]
    ELSE LET stop_info == e.active_stops[sym]
             current_price == PriceOf(sym, ung, kold)
         IN IF current_price * 100000 <= stop_info.stop_loss_price
            THEN close_position(e, sym, date, current_price, "STOP_LOSS")
            ELSE IF current_price * 100000 >= stop_info.take_profit_price
            THEN close_position(e, sym, date, current_price, "TAKE_PROFIT")
            ELSE LET e1 == IF ~stop_info.trailing_stop
                              /\ profit_reached(stop_info, current_price)
                           THEN activate_trailing_stop(e, sym, current_price)
                           ELSE e
                 IN IF e1.active_stops[sym].trailing_stop
                    THEN update_trailing_stop(e1, sym, current_price, date)
                    ELSE e1

\* _check_stop_losses.  The dict is iterated in insertion order; an entry is
\* inserted only together with a position, after every other position was
\* closed, so the dict never holds two entries and the order is immaterial.
check_stop_losses(e, date, ung, kold) ==
    check_stop(check_stop(e, config.symbol, date, ung, kold),
               config.inverse_symbol, date, ung, kold)

\* -------------------------------------------------------------------- sizing
\* _calculate_position_size: the target notional in dollars,
\*   clamp(base * min(|total_signal| / 0.5, 2.0) * min(cash / initial, 1.0), min, max),
\* as the mixed fraction whole + num / den with 0 <= num < den.
\* min(cash / initial, 1.0) is min(cash, initial) / initial; with cf that
\* minimum in mills (cf = 1000 * cd + cm) and mult5 the multiplier in fifths,
\*   size * 5 * initial = base * mult5 * cf / 1000 = W + R / 1000,
\* which is computed limb by limb to stay within TLC's 32-bit integers.
\* With initial_capital = 0 the division raises and the except branch returns
\* base_position_size.
calculate_position_size(e, sig) ==
    IF config.initial_capital = 0
    THEN [whole |-> config.base_position_size, num |-> 0, den |-> 1]
    ELSE
    LET signal_strength == Abs(sig.total_signal)            \* tenths
        mult5 == Min(signal_strength, 10)                   \* multiplier, in fifths
        cf == Min(e.current_capital, config.initial_capital * 1000)
        cd == cf \div 1000
        cm == cf % 1000
        b5 == config.base_position_size * mult5
        W == b5 * cd + (b5 * cm) \div 1000
        R == (b5 * cm) % 1000
        S == 5 * config.initial_capital
        raw == [whole |-> W \div S, num |-> (W % S) * 1000 + R, den |-> S * 1000]
        capped == IF raw.whole >= config.max_position_size
                  THEN [whole |-> config.max_position_size, num |-> 0, den |-> 1]
                  ELSE raw                  \* min(position_size, max_position_size)
    IN IF capped.whole < config.min_position_size
       THEN [whole |-> config.min_position_size, num |-> 0, den |-> 1]
       ELSE capped                          \* max(min_position_size, ...)

\* ---------------------------------------------------------------------- buy
\* An order placement without the minimum-trade-value floor.
place_order_skips_floor(e, sig, sym, date, quoted) ==
    IF quoted = 0 THEN e
    ELSE
    LET position_size == calculate_position_size(e, sig)
        quantity == position_size.whole \div quoted
        trade_value == quantity * quoted
        actual_price == quoted * (1000 + config.slippage_pct)
        actual_value == quantity * actual_price
        trade == [ timestamp |-> date, symbol |-> sym, action |-> "BUY",
                   quantity |-> quantity, price |-> actual_price,
                   value |-> actual_value, signal_strength |-> sig.total_signal,
                   confidence |-> sig.confidence, reason |-> "SIGNAL" ]
    IN IF quantity <= 0 THEN e
       ELSE IF trade_value * 1000 > e.current_capital THEN e
       ELSE setup_stop_loss(
              [ e EXCEPT !.trades = Append(e.trades, trade),
                         !.current_capital =
                             e.current_capital - actual_value
                                               - config.commission_per_trade,
                         !.positions = DictSet(e.positions, sym,
                             [ symbol |-> sym, quantity |-> quantity,
                               avg_price |-> actual_price,
                               entry_date |-> date ]) ],
              sym, actual_price, date)

\* An order placement that charges the commission for a rejected order.
place_order_charges_rejected(e, sig, sym, date, quoted) ==
    IF quoted = 0 THEN e
    ELSE
    LET position_size == calculate_position_size(e, sig)
        quantity == position_size.whole \div quoted
        trade_value == quantity * quoted
        actual_price == quoted * (1000 + config.slippage_pct)
        actual_value == quantity * actual_price
        trade == [ timestamp |-> date, symbol |-> sym, action |-> "BUY",
                   quantity |-> quantity, price |-> actual_price,
                   value |-> actual_value, signal_strength |-> sig.total_signal,
                   confidence |-> sig.confidence, reason |-> "SIGNAL" ]
        rejected == [e EXCEPT !.current_capital =
                                 e.current_capital - config.commission_per_trade]
    IN IF quantity <= 0 THEN rejected
       ELSE IF trade_value < 100 THEN rejected
       ELSE IF trade_value * 1000 > e.current_capital THEN rejected
       ELSE setup_stop_loss(
              [ e EXCEPT !.trades = Append(e.trades, trade),
                         !.current_capital =
                             e.current_capital - actual_value
                                               - config.commission_per_trade,
                         !.positions = DictSet(e.positions, sym,
                             [ symbol |-> sym, quantity |-> quantity,
                               avg_price |-> actual_price,
                               entry_date |-> date ]) ],
              sym, actual_price, date)

\* An order placement that sizes the order on the executed price (the quoted
\* price plus slippage) instead of the quoted price.
place_order_sizes_on_executed_price(e, sig, sym, date, quoted) ==
    IF quoted = 0 THEN e
    ELSE
    LET position_size == calculate_position_size(e, sig)
        actual_price == quoted * (1000 + config.slippage_pct)
        quantity == (position_size.whole * 1000) \div actual_price
        trade_value == quantity * quoted
        actual_value == quantity * actual_price
        trade == [ timestamp |-> date, symbol |-> sym, action |-> "BUY",
                   quantity |-> quantity, price |-> actual_price,
                   value |-> actual_value, signal_strength |-> sig.total_signal,
                   confidence |-> sig.confidence, reason |-> "SIGNAL" ]
    IN IF quantity <= 0 THEN e
       ELSE IF trade_value < 100 THEN e
       ELSE IF trade_value * 1000 > e.current_capital THEN e
       ELSE setup_stop_loss(
              [ e EXCEPT !.trades = Append(e.trades, trade),
                         !.current_capital =
                             e.current_capital - actual_value
                                               - config.commission_per_trade,
                         !.positions = DictSet(e.positions, sym,
                             [ symbol |-> sym, quantity |-> quantity,
                               avg_price |-> actual_price,
                               entry_date |-> date ]) ],
              sym, actual_price, date)

\* The order placement of _execute_boil_buy / _execute_kold_buy (steps 2 to 4):
\* size, the three rejections, then the BUY trade, the cash update, the
\* position and its stop.  A quoted price of 0 makes the division raise, and
\* the method's except branch only logs.
place_order(e, sig, sym, date, quoted) ==
    IF quoted = 0 THEN e
    ELSE
    LET position_size == calculate_position_size(e, sig)
        \* int(position_size / quoted): the fraction part of the size is below
        \* one dollar and cannot reach the next multiple of the whole price.
        quantity == position_size.whole \div quoted
        trade_value == quantity * quoted                    \* dollars
        actual_price == quoted * (1000 + config.slippage_pct)
        actual_value == quantity * actual_price
        trade == [ timestamp |-> date, symbol |-> sym, action |-> "BUY",
                   quantity |-> quantity, price |-> actual_price,
                   value |-> actual_value, signal_strength |-> sig.total_signal,
                   confidence |-> sig.confidence, reason |-> "SIGNAL" ]
    IN IF quantity <= 0 THEN e
       ELSE IF trade_value < 100 THEN e
       ELSE IF trade_value * 1000 > e.current_capital THEN e
       ELSE setup_stop_loss(
              [ e EXCEPT !.trades = Append(e.trades, trade),
                         !.current_capital =
                             e.current_capital - actual_value
                                               - config.commission_per_trade,
                         !.positions = DictSet(e.positions, sym,
                             [ symbol |-> sym, quantity |-> quantity,
                               avg_price |-> actual_price,
                               entry_date |-> date ]) ],
              sym, actual_price, date)

\* A UNG buy that closes the inverse position after placing the order.
execute_boil_buy_closes_late(e, sig, date, ung, kold) ==
    LET e2 == IF config.symbol \in DOMAIN e.positions
              THEN close_position(e, config.symbol, date, ung, "SIGNAL")
              ELSE e
        e3 == place_order(e2, sig, config.symbol, date, ung)
    IN IF config.inverse_symbol \in DOMAIN e3.positions
       THEN close_position(e3, config.inverse_symbol, date, kold,
                           "MUTUAL_EXCLUSIVITY")
       ELSE e3

\* A UNG buy that treats a signal for the instrument already held as a no-op.
execute_boil_buy_keeps_position(e, sig, date, ung, kold) ==
    LET e1 == IF config.inverse_symbol \in DOMAIN e.positions
              THEN close_position(e, config.inverse_symbol, date, kold,
                                  "MUTUAL_EXCLUSIVITY")
              ELSE e
    IN IF config.symbol \in DOMAIN e1.positions THEN e1
       ELSE place_order(e1, sig, config.symbol, date, ung)

\* A UNG buy that sizes and checks its order on the cash from before the
\* closes, and credits their proceeds afterwards.
execute_boil_buy_sizes_before_close(e, sig, date, ung, kold) ==
    LET e1 == IF config.inverse_symbol \in DOMAIN e.positions
              THEN close_position(e, config.inverse_symbol, date, kold,
                                  "MUTUAL_EXCLUSIVITY")
              ELSE e
        e2 == IF config.symbol \in DOMAIN e1.positions
              THEN close_position(e1, config.symbol, date, ung, "SIGNAL")
              ELSE e1
        proceeds == e2.current_capital - e.current_capital
        e3 == place_order([e2 EXCEPT !.current_capital = e.current_capital],
                          sig, config.symbol, date, ung)
    IN [e3 EXCEPT !.current_capital = e3.current_capital + proceeds]

\* _execute_boil_buy: close the inverse position (MUTUAL_EXCLUSIVITY), close
\* the own position (SIGNAL), then place the order.
execute_boil_buy(e, sig, date, ung, kold) ==
    LET e1 == IF config.inverse_symbol \in DOMAIN e.positions
              THEN close_position(e, config.inverse_symbol, date, kold,
                                  "MUTUAL_EXCLUSIVITY")
              ELSE e
        e2 == IF config.symbol \in DOMAIN e1.positions
              THEN close_position(e1, config.symbol, date, ung, "SIGNAL")
              ELSE e1
    IN place_order(e2, sig, config.symbol, date, ung)

\* A KOLD buy that closes the open positions only when its order is accepted.
execute_kold_buy_closes_on_accept(e, sig, date, ung, kold) ==
    LET e1 == IF config.symbol \in DOMAIN e.positions
              THEN close_position(e, config.symbol, date, ung, "MUTUAL_EXCLUSIVITY")
              ELSE e
        e2 == IF config.inverse_symbol \in DOMAIN e1.positions
              THEN close_position(e1, config.inverse_symbol, date, kold, "SIGNAL")
              ELSE e1
        e3 == place_order(e2, sig, config.inverse_symbol, date, kold)
    IN IF config.inverse_symbol \in DOMAIN e3.positions THEN e3 ELSE e

\* A KOLD buy that leaves an open UNG position alone.
execute_kold_buy_no_flip(e, sig, date, ung, kold) ==
    LET e2 == IF config.inverse_symbol \in DOMAIN e.positions
              THEN close_position(e, config.inverse_symbol, date, kold, "SIGNAL")
              ELSE e
    IN place_order(e2, sig, config.inverse_symbol, date, kold)

\* _execute_kold_buy: the mirror image.
execute_kold_buy(e, sig, date, ung, kold) ==
    LET e1 == IF config.symbol \in DOMAIN e.positions
              THEN close_position(e, config.symbol, date, ung, "MUTUAL_EXCLUSIVITY")
              ELSE e
        e2 == IF config.inverse_symbol \in DOMAIN e1.positions
              THEN close_position(e1, config.inverse_symbol, date, kold, "SIGNAL")
              ELSE e1
    IN place_order(e2, sig, config.inverse_symbol, date, kold)

\* _process_buy_signal
process_buy_signal(e, sig, date, ung, kold) ==
    IF sig.symbol = config.symbol THEN execute_boil_buy(e, sig, date, ung, kold)
    ELSE IF sig.symbol = config.inverse_symbol
    THEN execute_kold_buy(e, sig, date, ung, kold)
    ELSE e

\* price_data['ung_price'] or price_data['kold_price'] raises KeyError.
key_error(prices) == ~({"ung_price", "kold_price"} \subseteq DOMAIN prices)

\* The loop of _close_all_positions: every position whose end_date price is
\* truthy (neither None nor 0) is closed at that price.
RECURSIVE close_each(_, _, _, _, _)
close_each(e, syms, date, ung, kold) ==
    IF syms = << >> THEN e
    ELSE LET sym == Head(syms)
             p == IF sym = config.symbol THEN ung ELSE kold
         IN close_each(
              IF sym \in DOMAIN e.positions /\ ~IsNone(p) /\ Val(p) # 0
              THEN close_position(e, sym, date, Val(p), "END_OF_BACKTEST")
              ELSE e,
              Tail(syms), date, ung, kold)

\* A liquidation that reads the prices as of the day before end_date.
close_all_positions_stale_price(e, prices, date) ==
    close_each(e, <<config.symbol, config.inverse_symbol>>, date,
               get_price_for_date(prices.ung_price, date - 1),
               get_price_for_date(prices.kold_price, date - 1))

\* _close_all_positions: the two end_date prices are looked up and the
\* positions closed; a price frame missing from price_data makes the lookup
\* raise KeyError, and the except branch only logs.
close_all_positions(e, prices, date) ==
    IF key_error(prices) THEN e
    ELSE close_each(e, <<config.symbol, config.inverse_symbol>>, date,
                    get_price_for_date(prices.ung_price, date),
                    get_price_for_date(prices.kold_price, date))

\* ------------------------------------------------------------------- inputs
\* What the caller's data holds for date d.  Rows are revealed as the run
\* reaches their date: a lookup for date d reads only rows dated <= d.
PriceRow(d, p) == <<[timestamp |-> d, price |-> p]>>

\* The two price frames' rows for date d: every primary quote beside the
\* usual inverse quote, the lower inverse quote, and a date for which the
\* primary frame has no row (a data gap).
MarketRows(d) ==
    { <<PriceRow(d, p), PriceRow(d, 50)>> : p \in UngQuotes }
    \cup { <<PriceRow(d, 100), PriceRow(d, q)>> : q \in KoldQuotes }
    \cup { << << >>, PriceRow(d, 50) >> }

\* The signal list's rows for date d: one signal, or none.
SignalRowsFor(d) == { <<r>> : r \in SignalRows(d) } \cup { << >> }

\* ------------------------------------------------------------------ actions
\* The engine constructed with configuration cfg, and the caller's price_data
\* dict with the frames of frames (rows are added as the run reaches their date).
InitOn(cfg, frames) ==
    /\ config = cfg
    /\ start_date = 1
    /\ end_date = 0
    /\ price_data = frames
    /\ signals = << >>
    /\ current_capital = config.initial_capital * 1000
    /\ positions = EmptyDict
    /\ trades = << >>
    /\ trade_pnl = EmptyDict
    /\ daily_portfolio_values = << >>
    /\ active_stops = EmptyDict
    /\ current_date = 0
    /\ signal = None
    /\ ung_price = None
    /\ kold_price = None
    /\ result = None
    /\ pc = "idle"
    /\ first_result = None
    /\ other_engine = None
    /\ raw_signals = << >>
    /\ min_consecutive_days = None

InitWith(cfg) == InitOn(cfg, [ung_price |-> << >>, kold_price |-> << >>])

\* run_backtest is called for a range of at most n days: _reset_state,
\* current_date = start_date.
RunBacktestFor(n) ==
    /\ pc = "idle"
    /\ end_date' \in (start_date - 1) .. (start_date + n - 1)
    /\ SetEngine(reset_state)
    /\ trade_pnl' = EmptyDict
    /\ daily_portfolio_values' = << >>
    /\ current_date' = start_date
    /\ pc' = "loop"
    /\ UNCHANGED <<config, start_date, price_data, signals, signal, ung_price,
                   kold_price, result, caller>>

RunBacktest == RunBacktestFor(MaxDays)

\* _process_day up to the recording of the portfolio value, the caller's data
\* holding one of market_rows and one of signal_rows for the day:
\* the signal and the two prices are looked up; without both prices the day
\* is skipped, otherwise the portfolio value is appended.  A price frame
\* missing from price_data makes its lookup raise KeyError; the except branch
\* of _process_day only logs, so the day is skipped as well.
ProcessDayWith(market_rows, signal_rows) ==
    /\ pc = "loop"
    /\ current_date <= end_date
    /\ \E mr \in market_rows, sr \in signal_rows :
          /\ price_data' = [k \in DOMAIN price_data |->
                               price_data[k] \o (IF k = "ung_price" THEN mr[1]
                                                 ELSE mr[2])]
          /\ signals' = signals \o sr
    /\ signal' = get_signal_for_date(signals', current_date)
    /\ ung_price' = IF "ung_price" \in DOMAIN price_data
                     THEN get_price_for_date(price_data'.ung_price, current_date)
                     ELSE None
    /\ kold_price' = IF ~key_error(price_data)
                      THEN get_price_for_date(price_data'.kold_price, current_date)
                      ELSE None
    /\ IF key_error(price_data) \/ IsNone(ung_price') \/ IsNone(kold_price')
       THEN /\ daily_portfolio_values' = daily_portfolio_values
            /\ current_date' = current_date + 1
            /\ pc' = "loop"
       ELSE /\ daily_portfolio_values' =
                  Append(daily_portfolio_values,
                         <<current_date,
                           calculate_portfolio_value(Engine, Val(ung_price'),
                                                     Val(kold_price'))>>)
            /\ current_date' = current_date
            /\ pc' = "stops"
    /\ UNCHANGED <<config, start_date, end_date, current_capital, positions,
                   trades, trade_pnl, active_stops, result, caller>>

ProcessDay == ProcessDayWith(MarketRows(current_date), SignalRowsFor(current_date))

\* A stop step that handles the day's signal before it evaluates the stops.
CheckStopLosses_signal_first ==
    /\ pc = "stops"
    /\ SetEngine(check_stop_losses(
                    IF ~IsNone(signal) /\ Val(signal).action = "BUY"
                    THEN process_buy_signal(Engine, Val(signal), current_date,
                                            Val(ung_price), Val(kold_price))
                    ELSE Engine,
                    current_date, Val(ung_price), Val(kold_price)))
    /\ pc' = "signal"
    /\ UNCHANGED <<config, start_date, end_date, price_data, signals,
                   daily_portfolio_values, current_date, signal, ung_price,
                   kold_price, result, trade_pnl, caller>>

\* _process_day: self._check_stop_losses(current_date, ung_price, kold_price)
CheckStopLosses ==
    /\ pc = "stops"
    /\ SetEngine(check_stop_losses(Engine, current_date, Val(ung_price),
                                   Val(kold_price)))
    /\ pc' = "signal"
    /\ UNCHANGED <<config, start_date, end_date, price_data, signals,
                   daily_portfolio_values, current_date, signal, ung_price,
                   kold_price, result, trade_pnl, caller>>

\* A signal step after which run_backtest does not advance current_date.
ProcessSignal_same_day ==
    /\ pc = "signal"
    /\ SetEngine(IF ~IsNone(signal) /\ Val(signal).action = "BUY"
                 THEN process_buy_signal(Engine, Val(signal), current_date,
                                         Val(ung_price), Val(kold_price))
                 ELSE Engine)
    /\ current_date' = current_date
    /\ pc' = "loop"
    /\ UNCHANGED <<config, start_date, end_date, price_data, signals,
                   daily_portfolio_values, signal, ung_price, kold_price, result,
                   trade_pnl, caller>>

\* _process_day: the signal is handled (BUY is executed, HOLD and None do
\* nothing); then run_backtest advances current_date.
ProcessSignal ==
    /\ pc = "signal"
    /\ SetEngine(IF ~IsNone(signal) /\ Val(signal).action = "BUY"
                 THEN process_buy_signal(Engine, Val(signal), current_date,
                                         Val(ung_price), Val(kold_price))
                 ELSE Engine)
    /\ current_date' = current_date + 1
    /\ pc' = "loop"
    /\ UNCHANGED <<config, start_date, end_date, price_data, signals,
                   daily_portfolio_values, signal, ung_price, kold_price, result,
                   trade_pnl, caller>>

\* run_backtest after the loop: self._close_all_positions(price_data, end_date)
CloseAllPositions ==
    /\ pc = "loop"
    /\ current_date > end_date
    /\ SetEngine(close_all_positions(Engine, price_data, end_date))
    /\ pc' = "results"
    /\ UNCHANGED <<config, start_date, end_date, price_data, signals,
                   daily_portfolio_values, current_date, signal, ung_price,
                   kold_price, result, trade_pnl, caller>>

\* --------------------------------------------------------------- statistics
\* A float that is a ratio of two of the model's integers is the fraction
\* [num, den] with den > 0 (not reduced: fractions are compared with FracLess
\* and FracEq); 0.0 is 0/1 and float('inf') is 1/0.
Zero == [num |-> 0, den |-> 1]
Inf == [num |-> 1, den |-> 0]

\* n / d for d # 0
Frac(n, d) ==
    IF n = 0 THEN Zero
    ELSE IF d > 0 THEN [num |-> n, den |-> d]
    ELSE [num |-> 0 - n, den |-> 0 - d]

\* a / b < c / d for b > 0 and d > 0, by comparing the continued fractions
\* (the cross products do not fit TLC's integers).
RECURSIVE RatioLess(_, _, _, _)
RatioLess(a, b, c, d) ==
    IF a \div b # c \div d THEN a \div b < c \div d
    ELSE IF c % d = 0 THEN FALSE
    ELSE IF a % b = 0 THEN TRUE
    ELSE RatioLess(d, c % d, b, a % b)

FracLess(x, y) == RatioLess(x.num, x.den, y.num, y.den)
FracEq(x, y) == ~FracLess(x, y) /\ ~FracLess(y, x)

\* _calculate_results, the daily returns: (curr - prev) / prev for consecutive
\* portfolio values.
daily_returns_of(values) ==
    [i \in 1 .. (Len(values) - 1) |->
        Frac(values[i + 1][2] - values[i][2], values[i][2])]

\* A drawdown loop that measures every value against the first one: the peak
\* is never moved.
RECURSIVE drawdown_from_first_value(_, _, _, _)
drawdown_from_first_value(values, i, peak, max_dd) ==
    IF i > Len(values) THEN Some(max_dd)
    ELSE IF peak = 0 THEN None
    ELSE LET dd == Frac(peak - values[i][2], peak)
         IN drawdown_from_first_value(values, i + 1, peak,
                                      IF FracLess(max_dd, dd) THEN dd ELSE max_dd)

\* The loop of _calculate_max_drawdown from the i-th value on; <<>> when the
\* division by a peak of 0 raises.
RECURSIVE drawdown_from(_, _, _, _)
drawdown_from(values, i, peak, max_dd) ==
    IF i > Len(values) THEN Some(max_dd)
    ELSE LET value == values[i][2]
             new_peak == IF value > peak THEN value ELSE peak
         IN IF new_peak = 0 THEN None
            ELSE LET dd == Frac(new_peak - value, new_peak)
                 IN drawdown_from(values, i + 1, new_peak,
                                  IF FracLess(max_dd, dd) THEN dd ELSE max_dd)

\* _calculate_max_drawdown: 0.0 for an empty series and when the loop raises.
calculate_max_drawdown(values) ==
    IF values = << >> THEN Zero
    ELSE LET max_dd == drawdown_from(values, 1, values[1][2], Zero)
         IN IF IsNone(max_dd) THEN Zero ELSE Val(max_dd)

\* A Sharpe ratio that does not guard against a zero standard deviation.
calculate_sharpe_ratio_unguarded(daily_returns) ==
    IF daily_returns = << >> THEN Zero
    ELSE [mean_over_std_of |-> daily_returns, annualized_by |-> 252]

\* _calculate_sharpe_ratio: 0.0 without returns and when np.std is 0, which
\* in exact arithmetic is when all returns are equal (in floating point it
\* is so for returns that are all 0.0); otherwise mean / std * sqrt(252),
\* which is irrational and kept as the expression over its returns.
calculate_sharpe_ratio(daily_returns) ==
    IF daily_returns = << >> THEN Zero
    ELSE IF \A i \in 1 .. Len(daily_returns) :
               FracEq(daily_returns[i], daily_returns[1])
    THEN Zero
    ELSE [mean_over_std_of |-> daily_returns, annualized_by |-> 252]

\* The pairing loop of _calculate_trade_stats from the i-th trade on: open maps
\* a symbol to the index of its last BUY, attrs maps the index of a trade that
\* has the attribute pnl to its value.  A SELL of a symbol with an open BUY
\* gets pnl = its value - the BUY's value unless it has the attribute already.
RECURSIVE pair_trades(_, _, _, _)
pair_trades(log, i, open, attrs) ==
    IF i > Len(log) THEN attrs
    ELSE IF log[i].action = "BUY"
    THEN pair_trades(log, i + 1, DictSet(open, log[i].symbol, i), attrs)
    ELSE IF log[i].action = "SELL" /\ log[i].symbol \in DOMAIN open
    THEN pair_trades(log, i + 1, DictDel(open, log[i].symbol),
                     IF i \in DOMAIN attrs THEN attrs
                     ELSE DictSet(attrs, i,
                                  log[i].value - log[open[log[i].symbol]].value))
    ELSE pair_trades(log, i + 1, open, attrs)

\* The pnl attributes the trades of the log have after _calculate_trade_stats
\* (an empty log returns before the loop).
pnl_attributes(log, attrs) ==
    IF log = << >> THEN attrs ELSE pair_trades(log, 1, EmptyDict, attrs)

\* Trade statistics whose profit factor is 0.0 when there is no losing trade.
calculate_trade_stats_finite_factor(log, attrs) ==
    LET pnl == pnl_attributes(log, attrs)
        completed_trades == DOMAIN pnl
        wins == {t \in completed_trades : pnl[t] > 0}
        losses == {t \in completed_trades : pnl[t] < 0}
        total_wins == SumOver(wins, pnl)
        total_losses == Abs(SumOver(losses, pnl))
    IN IF log = << >> \/ completed_trades = {}
       THEN [ win_rate |-> Zero, avg_win |-> Zero, avg_loss |-> Zero,
              profit_factor |-> Zero, trade_pnl |-> pnl ]
       ELSE [ win_rate |-> Frac(Cardinality(wins), Cardinality(completed_trades)),
              avg_win |-> IF wins # {} THEN Frac(total_wins, Cardinality(wins))
                          ELSE Zero,
              avg_loss |-> IF losses # {}
                           THEN Frac(SumOver(losses, pnl), Cardinality(losses))
                           ELSE Zero,
              profit_factor |-> IF total_losses > 0
                                THEN Frac(total_wins, total_losses)
                                ELSE Zero,
              trade_pnl |-> pnl ]

\* _calculate_trade_stats on the log and the pnl attributes its trades have:
\* the four statistics, and the pnl attributes the trades have afterwards.
calculate_trade_stats(log, attrs) ==
    LET pnl == pnl_attributes(log, attrs)
        completed_trades == DOMAIN pnl
        wins == {t \in completed_trades : pnl[t] > 0}
        losses == {t \in completed_trades : pnl[t] < 0}
        total_wins == SumOver(wins, pnl)
        total_losses == Abs(SumOver(losses, pnl))
    IN IF log = << >> \/ completed_trades = {}
       THEN [ win_rate |-> Zero, avg_win |-> Zero, avg_loss |-> Zero,
              profit_factor |-> Zero, trade_pnl |-> pnl ]
       ELSE [ win_rate |-> Frac(Cardinality(wins), Cardinality(completed_trades)),
              avg_win |-> IF wins # {} THEN Frac(total_wins, Cardinality(wins))
                          ELSE Zero,
              avg_loss |-> IF losses # {}
                           THEN Frac(SumOver(losses, pnl), Cardinality(losses))
                           ELSE Zero,
              profit_factor |-> IF total_losses > 0
                                THEN Frac(total_wins, total_losses)
                                ELSE Inf,
              trade_pnl |-> pnl ]

\* _calculate_results raises (and run_backtest with it): a division by zero
\* in the daily returns or in total_return / initial_capital, which are not
\* guarded.  (The operands are Python numbers while no trade has been made;
\* a zero divisor occurs only with an initial capital of 0, which admits no
\* order.)
results_raise(values) ==
    \/ \E i \in 1 .. (Len(values) - 1) : values[i][2] = 0
    \/ config.initial_capital = 0

\* The statistics of _calculate_results over a trade log with its pnl
\* attributes and a portfolio-value series.
statistics(log, attrs, values) ==
    LET trade_stats == calculate_trade_stats(log, attrs)
        daily_returns == daily_returns_of(values)
    IN [ daily_returns |-> daily_returns,
         max_drawdown |-> calculate_max_drawdown(values),
         sharpe_ratio |-> calculate_sharpe_ratio(daily_returns),
         win_rate |-> trade_stats.win_rate,
         avg_win |-> trade_stats.avg_win,
         avg_loss |-> trade_stats.avg_loss,
         profit_factor |-> trade_stats.profit_factor ]

\* _calculate_results: the BacktestResult (money in mills, total_return_pct
\* in percent).
calculate_results ==
    LET stats == statistics(trades, trade_pnl, daily_portfolio_values)
        total_return == current_capital - config.initial_capital * 1000
    IN [ start_date |-> start_date, end_date |-> end_date,
         initial_capital |-> config.initial_capital * 1000,
         final_capital |-> current_capital,
         total_return |-> total_return,
         total_return_pct |-> Frac(total_return * 100, config.initial_capital * 1000),
         trades |-> trades,
         positions |-> DOMAIN positions,
         daily_returns |-> stats.daily_returns,
         daily_portfolio_values |-> daily_portfolio_values,
         max_drawdown |-> stats.max_drawdown,
         sharpe_ratio |-> stats.sharpe_ratio,
         win_rate |-> stats.win_rate,
         avg_win |-> stats.avg_win,
         avg_loss |-> stats.avg_loss,
         profit_factor |-> stats.profit_factor ]

\* run_backtest: result = self._calculate_results(start_date, end_date); return.
\* When _calculate_results raises, run_backtest logs and raises too: nothing
\* is returned.  _calculate_trade_stats leaves the pnl attributes on the trades.
CalculateResults ==
    /\ pc = "results"
    /\ IF results_raise(daily_portfolio_values)
       THEN /\ result' = None
            /\ trade_pnl' = trade_pnl
            /\ pc' = "raised"
       ELSE /\ result' = Some(calculate_results)
            /\ trade_pnl' = pnl_attributes(trades, trade_pnl)
            /\ pc' = "done"
    /\ UNCHANGED <<config, start_date, end_date, price_data, signals,
                   current_capital, positions, trades, daily_portfolio_values,
                   active_stops, current_date, signal, ung_price, kold_price,
                   caller>>

Next ==
    \/ RunBacktest
    \/ ProcessDay
    \/ CheckStopLosses
    \/ ProcessSignal
    \/ CloseAllPositions
    \/ CalculateResults

Init == InitWith(DefaultConfig)

Spec == Init /\ [][Next]_vars

\* The same engine constructed with the low-capital configuration.
InitLowCapital == InitWith(LowCapitalConfig)

SpecLowCapital == InitLowCapital /\ [][Next]_vars

\* Runs over the trailing-stop price path: the default configuration, the
\* primary instrument quoted on the path, the inverse instrument at its usual
\* quote, and each day either a BUY signal for the primary instrument or none.
PathRows(d) == { <<PriceRow(d, p), PriceRow(d, 50)>> : p \in PathQuotes }

PathSignals(d) ==
    { << >>,
      <<[timestamp |-> d, action |-> "BUY", symbol |-> "UNG", total_signal |-> 5,
         confidence |-> 17]>> }

RunBacktestPath == RunBacktestFor(ScenarioDays)

ProcessDayPath == ProcessDayWith(PathRows(current_date), PathSignals(current_date))

NextPath ==
    \/ RunBacktestPath
    \/ ProcessDayPath
    \/ CheckStopLosses
    \/ ProcessSignal
    \/ CloseAllPositions
    \/ CalculateResults

SpecPath == Init /\ [][NextPath]_vars

\* Runs in which a trailing stop is activated, raised and hit: the primary
\* instrument is quoted at an entry price of 100, at 112 or 115 (both reach the
\* 10% profit that activates the trailing stop, neither the take-profit), at
\* 108 (below the trailing levels 108.64 and 111.55) or not at all.
TrailingQuotes == {100, 108, 112, 115}

TrailingRows(d) ==
    { <<PriceRow(d, p), PriceRow(d, 50)>> : p \in TrailingQuotes }
    \cup { << << >>, PriceRow(d, 50) >> }

ProcessDayTrailing ==
    ProcessDayWith(TrailingRows(current_date), PathSignals(current_date))

NextTrailing ==
    \/ RunBacktest
    \/ ProcessDayTrailing
    \/ CheckStopLosses
    \/ ProcessSignal
    \/ CloseAllPositions
    \/ CalculateResults

SpecTrailing == Init /\ [][NextTrailing]_vars

\* Runs of the low-capital engine, whose first order spends all of the cash,
\* over the same quotes with a BUY signal for either instrument.
ReinvestSignals(d) ==
    { << >>,
      <<[timestamp |-> d, action |-> "BUY", symbol |-> "UNG", total_signal |-> 5,
         confidence |-> 17]>>,
      <<[timestamp |-> d, action |-> "BUY", symbol |-> "KOLD",
         total_signal |-> -5, confidence |-> 17]>> }

ProcessDayReinvest ==
    ProcessDayWith(TrailingRows(current_date), ReinvestSignals(current_date))

NextReinvest ==
    \/ RunBacktest
    \/ ProcessDayReinvest
    \/ CheckStopLosses
    \/ ProcessSignal
    \/ CloseAllPositions
    \/ CalculateResults

SpecReinvest == InitLowCapital /\ [][NextReinvest]_vars

\* The same engine constructed with an initial capital of zero.
InitZeroCapital == InitWith(ZeroCapitalConfig)

SpecZeroCapital == InitZeroCapital /\ [][Next]_vars

\* The default engine run on a price_data dict that has both frames, or that
\* lacks the frame of the primary instrument.
InitMissingFrame ==
    \E frames \in { [ung_price |-> << >>, kold_price |-> << >>],
                    [kold_price |-> << >>] } :
       InitOn(DefaultConfig, frames)

SpecMissingFrame == InitMissingFrame /\ [][Next]_vars

\* The same engine constructed with the small-order configuration.
InitSmallOrders == InitWith(SmallOrderConfig)

SpecSmallOrders == InitSmallOrders /\ [][Next]_vars

\* ------------------------------------------------- runs over given data
\* run_backtest as a function of its arguments.  One engine instance's run is
\* its four state attributes and its portfolio-value series.
\* _process_day as a whole, for the date d.
process_day(run, d, sigs, prices) ==
    IF key_error(prices) THEN run
    ELSE LET sig == get_signal_for_date(sigs, d)
             ung == get_price_for_date(prices.ung_price, d)
             kold == get_price_for_date(prices.kold_price, d)
         IN IF IsNone(ung) \/ IsNone(kold) THEN run
            ELSE LET e1 == check_stop_losses(run.engine, d, Val(ung), Val(kold))
                     e2 == IF ~IsNone(sig) /\ Val(sig).action = "BUY"
                           THEN process_buy_signal(e1, Val(sig), d, Val(ung),
                                                   Val(kold))
                           ELSE e1
                 IN [ engine |-> e2,
                      daily_portfolio_values |->
                          Append(run.daily_portfolio_values,
                                 <<d, calculate_portfolio_value(run.engine, Val(ung),
                                                                Val(kold))>>) ]

\* The loop of run_backtest from date d to date last.
RECURSIVE run_days(_, _, _, _, _)
run_days(run, d, last, sigs, prices) ==
    IF d > last THEN run
    ELSE run_days(process_day(run, d, sigs, prices), d + 1, last, sigs, prices)

\* run_backtest up to the liquidation: _reset_state, the loop,
\* _close_all_positions.
run_alone(sigs, prices, first, last) ==
    LET run == run_days([engine |-> reset_state, daily_portfolio_values |-> << >>],
                        first, last, sigs, prices)
    IN [run EXCEPT !.engine = close_all_positions(run.engine, prices, last)]

\* Number of calendar days of the data a caller prepares before its calls.
GivenDays == 2

\* The rows the caller's data holds for date d: the primary instrument at the
\* entry quote, below the stop-loss or above the take-profit, or missing.
GivenRows(d) ==
    { <<PriceRow(d, p), PriceRow(d, 50)>> : p \in {94, 100, 116} }
    \cup { << << >>, PriceRow(d, 50) >> }

\* The complete data for the dates d .. last.
RECURSIVE DataFor(_, _)
DataFor(d, last) ==
    IF d > last
    THEN { [ung_price |-> << >>, kold_price |-> << >>, signals |-> << >>] }
    ELSE { [ ung_price |-> mr[1] \o rest.ung_price,
             kold_price |-> mr[2] \o rest.kold_price,
             signals |-> sr \o rest.signals ] :
              mr \in GivenRows(d), sr \in SignalRowsFor(d),
              rest \in DataFor(d + 1, last) }

\* A BacktestEngine as __init__ leaves it.
constructed ==
    [ engine |-> reset_state, daily_portfolio_values |-> << >>,
      current_date |-> 0, pc |-> "idle" ]

\* The default engine, and the caller's complete data for a range of at most n
\* days; others is what the caller has besides (a second engine, or none).
InitGiven(n, others) ==
    /\ config = DefaultConfig
    /\ start_date = 1
    /\ end_date \in 0 .. n
    /\ \E data \in DataFor(1, end_date) :
          /\ price_data = [ung_price |-> data.ung_price,
                           kold_price |-> data.kold_price]
          /\ signals = data.signals
    /\ current_capital = config.initial_capital * 1000
    /\ positions = EmptyDict
    /\ trades = << >>
    /\ trade_pnl = EmptyDict
    /\ daily_portfolio_values = << >>
    /\ active_stops = EmptyDict
    /\ current_date = 0
    /\ signal = None
    /\ ung_price = None
    /\ kold_price = None
    /\ result = None
    /\ pc = "idle"
    /\ first_result = None
    /\ other_engine \in others
    /\ raw_signals = << >>
    /\ min_consecutive_days = None

\* run_backtest is called with the arguments the caller holds: _reset_state,
\* current_date = start_date.  (The Trade objects of an earlier call are
\* dropped with its list.)
CallRunBacktest ==
    /\ SetEngine(reset_state)
    /\ trade_pnl' = EmptyDict
    /\ daily_portfolio_values' = << >>
    /\ current_date' = start_date
    /\ pc' = "loop"
    /\ UNCHANGED <<config, start_date, end_date, price_data, signals, signal,
                   ung_price, kold_price, result, other_engine, upstream>>

\* The first call on the engine.
RunBacktestGiven ==
    /\ pc = "idle"
    /\ CallRunBacktest
    /\ UNCHANGED first_result

\* _process_day on the caller's complete data: no row is added.
ProcessDayGiven == ProcessDayWith({ << << >>, << >> >> }, { << >> })

\* ---------------------------------------------------- a second instance
\* The caller's second BacktestEngine, made from the same config and run on
\* the same signals, prices and dates.  Its attributes are its own: __init__
\* and _reset_state bind fresh objects to the instance.
\* A second instance whose positions dict is the first instance's (as a
\* class attribute would be).
OtherEngineState_shared_positions ==
    [Val(other_engine).engine EXCEPT !.positions = positions]

\* The state attributes a step of the second instance works on.
OtherEngineState == Val(other_engine).engine

\* The first instance's run, which a step of the second leaves alone.
this_run ==
    <<config, start_date, end_date, price_data, signals, current_capital,
      positions, trades, trade_pnl, daily_portfolio_values, active_stops,
      current_date, signal, ung_price, kold_price, result, pc, first_result,
      upstream>>

\* run_backtest is called on the second instance.
OtherRunBacktest ==
    /\ ~IsNone(other_engine)
    /\ Val(other_engine).pc = "idle"
    /\ other_engine' = Some([ engine |-> reset_state,
                              daily_portfolio_values |-> << >>,
                              current_date |-> start_date, pc |-> "loop" ])
    /\ UNCHANGED this_run

\* One day step of the second instance: _process_day, current_date += 1 day.
OtherProcessDay ==
    /\ ~IsNone(other_engine)
    /\ Val(other_engine).pc = "loop"
    /\ Val(other_engine).current_date <= end_date
    /\ LET run == process_day(
                     [ engine |-> OtherEngineState,
                       daily_portfolio_values |->
                           Val(other_engine).daily_portfolio_values ],
                     Val(other_engine).current_date, signals, price_data)
       IN other_engine' =
             Some([ engine |-> run.engine,
                    daily_portfolio_values |-> run.daily_portfolio_values,
                    current_date |-> Val(other_engine).current_date + 1,
                    pc |-> "loop" ])
    /\ UNCHANGED this_run

\* The second instance after its loop: _close_all_positions.
OtherCloseAllPositions ==
    /\ ~IsNone(other_engine)
    /\ Val(other_engine).pc = "loop"
    /\ Val(other_engine).current_date > end_date
    /\ other_engine' =
          Some([ Val(other_engine) EXCEPT
                    !.engine = close_all_positions(OtherEngineState, price_data,
                                                   end_date),
                    !.pc = "results" ])
    /\ UNCHANGED this_run

NextTwoRuns ==
    \/ RunBacktestGiven
    \/ ProcessDayGiven
    \/ CheckStopLosses
    \/ ProcessSignal
    \/ CloseAllPositions
    \/ CalculateResults
    \/ OtherRunBacktest
    \/ OtherProcessDay
    \/ OtherCloseAllPositions

InitTwoRuns == InitGiven(GivenDays, {Some(constructed)})

\* Two engine instances run over the same given data, their steps interleaved.
SpecTwoRuns == InitTwoRuns /\ [][NextTwoRuns]_vars

\* ------------------------------------------------------------ a second call
\* run_backtest is called again on the same engine, with the same arguments,
\* after the first call returned; the caller keeps what the first call returned.
RunBacktestAgain ==
    /\ pc = "done"
    /\ IsNone(first_result)
    /\ CallRunBacktest
    /\ first_result' = result

NextRerun ==
    \/ RunBacktestGiven
    \/ RunBacktestAgain
    \/ ProcessDayGiven
    \/ CheckStopLosses
    \/ ProcessSignal
    \/ CloseAllPositions
    \/ CalculateResults

InitRerun == InitGiven(GivenDays, {None})

\* One engine instance called twice over the same given data.
SpecRerun == InitRerun /\ [][NextRerun]_vars

\* Control is inside run_backtest, at a statement of its body.
Running == pc \in {"loop", "stops", "signal", "results"}

\* Control inside run_backtest moves on.  The body is sequential code without
\* a blocking call, so the statement at which control stands is executed: a
\* day's lookups, its stop evaluation, its signal handling, the liquidation or
\* the computation of the result.  Each of them moves pc or current_date.
ControlAdvances ==
    /\ Running
    /\ pc' \in {"loop", "stops", "signal", "results", "done", "raised"}
    /\ current_date' \in {current_date, current_date + 1}

\* Calls on given data that are not abandoned half-way.
SpecRerunFair == SpecRerun /\ WF_<<pc, current_date>>(ControlAdvances)

\* ------------------------------------------- several signals for one date
\* The signal list's rows for date d when the generator's output may hold two
\* signals for one date: none, one, or two in either order.
DuplicateSignalRows(d) ==
    SignalRowsFor(d)
    \cup { <<a, b>> : a \in SignalRows(d), b \in SignalRows(d) }

RunBacktestDuplicates == RunBacktestFor(GivenDays)

ProcessDayDuplicates ==
    ProcessDayWith(GivenRows(current_date), DuplicateSignalRows(current_date))

NextDuplicates ==
    \/ RunBacktestDuplicates
    \/ ProcessDayDuplicates
    \/ CheckStopLosses
    \/ ProcessSignal
    \/ CloseAllPositions
    \/ CalculateResults

\* The default engine run on a signal list that may hold two signals per date.
SpecDuplicateSignals == Init /\ [][NextDuplicates]_vars

\* ------------------------------------------------------ signal generation
\* Number of calendar days of the period signals are generated for.
SignalDays == 3

\* Values of a sub-signal (tenths).
SubSignalValues == {-10, 0, 10}

\* What the historical data gives for a date: the temperature and storm
\* sub-signals beside a neutral inventory sub-signal.
HistoricalRows ==
    { [temperature |-> t, inventory |-> 0, storm |-> w] :
         t \in SubSignalValues, w \in SubSignalValues }

\* calculate_total_signal: the weighted sum (tenths; the products are
\* hundredths, and multiples of ten for the sub-signal values above).
calculate_total_signal(cfg, temp_signal, inventory_signal, storm_signal) ==
    (temp_signal * cfg.temperature_weight
       + inventory_signal * cfg.inventory_weight
       + storm_signal * cfg.storm_weight) \div 10

\* The float 2.0 that caps a confidence.
Two == [num |-> 2, den |-> 1]

\* An action rule that buys at the threshold too.
determine_action_inclusive(cfg, total_signal) ==
    IF total_signal >= cfg.buy_threshold
    THEN [ action |-> "BUY", symbol |-> cfg.symbol,
           confidence |-> IF total_signal >= 2 * cfg.buy_threshold THEN Two
                          ELSE Frac(total_signal, cfg.buy_threshold) ]
    ELSE IF total_signal <= cfg.sell_threshold
    THEN [ action |-> "BUY", symbol |-> cfg.inverse_symbol,
           confidence |-> IF Abs(total_signal) >= 2 * Abs(cfg.sell_threshold)
                          THEN Two
                          ELSE Frac(Abs(total_signal), Abs(cfg.sell_threshold)) ]
    ELSE [ action |-> "HOLD", symbol |-> "", confidence |-> Zero ]

\* determine_action: (action, symbol, confidence) for a total signal;
\* confidence = min(|total| / |threshold|, 2.0) as a fraction.
determine_action(cfg, total_signal) ==
    IF total_signal > cfg.buy_threshold
    THEN [ action |-> "BUY", symbol |-> cfg.symbol,
           confidence |-> IF total_signal >= 2 * cfg.buy_threshold THEN Two
                          ELSE Frac(total_signal, cfg.buy_threshold) ]
    ELSE IF total_signal < cfg.sell_threshold
    THEN [ action |-> "BUY", symbol |-> cfg.inverse_symbol,
           confidence |-> IF Abs(total_signal) >= 2 * Abs(cfg.sell_threshold)
                          THEN Two
                          ELSE Frac(Abs(total_signal), Abs(cfg.sell_threshold)) ]
    ELSE [ action |-> "HOLD", symbol |-> "", confidence |-> Zero ]

\* generate_signal_for_date: the HistoricalTradingSignal for date d from what
\* the historical data gives for the date; None when a frame is missing from
\* historical_data (the KeyError is logged).
generate_signal_for_date(cfg, historical_data, d) ==
    IF IsNone(historical_data) THEN None
    ELSE LET row == Val(historical_data)[d]
             total_signal ==
                 calculate_total_signal(cfg, row.temperature, row.inventory,
                                        row.storm)
             decided == determine_action(cfg, total_signal)
         IN Some([ timestamp |-> d,
                   temperature_signal |-> row.temperature,
                   inventory_signal |-> row.inventory,
                   storm_signal |-> row.storm,
                   total_signal |-> total_signal,
                   action |-> decided.action,
                   symbol |-> decided.symbol,
                   confidence |-> decided.confidence,
                   data_date |-> d ])

\* generate_signals_for_period: the signals of the dates d .. last, in date
\* order; a date without a signal is left out.
RECURSIVE generate_signals_for_period(_, _, _, _)
generate_signals_for_period(cfg, historical_data, d, last) ==
    IF d > last THEN << >>
    ELSE LET sig == generate_signal_for_date(cfg, historical_data, d)
         IN (IF IsNone(sig) THEN << >> ELSE <<Val(sig)>>)
               \o generate_signals_for_period(cfg, historical_data, d + 1, last)

\* The HOLD signal apply_signal_confirmation puts in the place of a signal
\* that is not confirmed.
hold_signal(sig) ==
    [sig EXCEPT !.action = "HOLD", !.symbol = "", !.confidence = Zero]

\* recent_signals[-n:] of _is_signal_confirmed (n >= 1).
LastN(seq, n) ==
    IF Len(seq) <= n THEN seq ELSE SubSeq(seq, Len(seq) - n + 1, Len(seq))

\* _is_signal_confirmed: only a BUY is confirmed; the history's signals of the
\* same symbol dated within min_days days before the signal are taken (the
\* history is in date order, which the sort keeps); there must be min_days of
\* them, and the last min_days must all be BUYs of the symbol, counted from
\* the first of them up to the first that is not.
is_signal_confirmed(current_signal, signal_history, min_days) ==
    IF current_signal.action # "BUY" THEN FALSE
    ELSE LET recent_signals ==
                 SelectSeq(signal_history,
                           LAMBDA h : /\ h.symbol = current_signal.symbol
                                      /\ h.timestamp
                                           >= current_signal.timestamp - min_days)
             last_signals == LastN(recent_signals, min_days)
             consecutive_buys ==
                 Cardinality({ k \in 1 .. Len(last_signals) :
                                 \A j \in 1 .. k :
                                    /\ last_signals[j].action = "BUY"
                                    /\ last_signals[j].symbol
                                         = current_signal.symbol })
         IN IF Len(recent_signals) < min_days THEN FALSE
            ELSE consecutive_buys >= min_days

\* The loop of apply_signal_confirmation from the i-th signal on: the signal
\* joins the history, the history is cut to the last 7 days, and the signal or
\* its HOLD replacement joins the output.
RECURSIVE confirm_from(_, _, _, _, _)
confirm_from(sigs, i, signal_history, min_days, confirmed_signals) ==
    IF i > Len(sigs) THEN confirmed_signals
    ELSE LET history ==
                 SelectSeq(Append(signal_history, sigs[i]),
                           LAMBDA h : h.timestamp >= sigs[i].timestamp - 7)
         IN confirm_from(sigs, i + 1, history, min_days,
                         Append(confirmed_signals,
                                IF is_signal_confirmed(sigs[i], history, min_days)
                                THEN sigs[i]
                                ELSE hold_signal(sigs[i])))

\* A confirmation that leaves the signals it does not confirm out.
apply_signal_confirmation_drops(sigs, min_days) ==
    SelectSeq(confirm_from(sigs, 1, << >>, min_days, << >>),
              LAMBDA h : h.action = "BUY")

\* apply_signal_confirmation
apply_signal_confirmation(sigs, min_days) ==
    confirm_from(sigs, 1, << >>, min_days, << >>)

\* The caller has the signals of a period of at most SignalDays days generated.
GenerateSignals ==
    /\ pc = "idle"
    /\ IsNone(min_consecutive_days)
    /\ raw_signals = << >>
    /\ \E n \in 0 .. SignalDays :
          \E historical_data \in
                {None} \cup { Some(rows) : rows \in [1 .. n -> HistoricalRows] } :
             raw_signals' = generate_signals_for_period(config, historical_data, 1, n)
    /\ UNCHANGED <<config, start_date, end_date, price_data, signals,
                   current_capital, positions, trades, trade_pnl,
                   daily_portfolio_values, active_stops, current_date, signal,
                   ung_price, kold_price, result, pc, first_result, other_engine,
                   min_consecutive_days>>

\* The caller has the generated signals confirmed; the confirmed signals are
\* the ones it will pass to run_backtest.
ApplySignalConfirmation ==
    /\ pc = "idle"
    /\ IsNone(min_consecutive_days)
    /\ \E n \in 1 .. SignalDays :
          /\ min_consecutive_days' = Some(n)
          /\ signals' = apply_signal_confirmation(raw_signals, n)
    /\ UNCHANGED <<config, start_date, end_date, price_data, current_capital,
                   positions, trades, trade_pnl, daily_portfolio_values,
                   active_stops, current_date, signal, ung_price, kold_price,
                   result, pc, first_result, other_engine, raw_signals>>

NextSignals ==
    \/ GenerateSignals
    \/ ApplySignalConfirmation

\* A generator with the default or with the aggressive thresholds.
InitSignals == \E cfg \in {DefaultConfig, AggressiveConfig} : InitWith(cfg)

SpecSignals == InitSignals /\ [][NextSignals]_vars

\* =================================================================== claims
Last(seq) == seq[Len(seq)]
Symbols == {config.symbol, config.inverse_symbol}

\* The trades a step appends.
NewTrades == SubSeq(trades', Len(trades) + 1, Len(trades'))

\* A day's processing is complete: the last recorded day is the day before
\* current_date, and ung_price / kold_price still hold that day's prices.
DayDone ==
    /\ pc = "loop"
    /\ daily_portfolio_values # << >>
    /\ Last(daily_portfolio_values)[1] = current_date - 1

\* cash + sum over the open positions of quantity * the day's quoted price (mills)
MarkToMarket ==
    current_capital
    + (IF "UNG" \in DOMAIN positions
       THEN positions["UNG"].quantity * Val(ung_price) * 1000 ELSE 0)
    + (IF "KOLD" \in DOMAIN positions
       THEN positions["KOLD"].quantity * Val(kold_price) * 1000 ELSE 0)

TradedOn(d) == \E i \in 1 .. Len(trades) : trades[i].timestamp = d

\* C1: in every reachable state the positions map holds at most one open
\* position, and never one in the primary and one in the inverse instrument.
C1_AtMostOnePosition ==
    /\ Cardinality(DOMAIN positions) <= 1
    /\ ~({"UNG", "KOLD"} \subseteq DOMAIN positions)

\* C1 witness: a flip happened (the primary position was closed for mutual
\* exclusivity) and the inverse position is the only one open.
C1_Witness ==
    /\ DOMAIN positions = {"KOLD"}
    /\ \E i \in 1 .. Len(trades) :
          /\ trades[i].symbol = "UNG"
          /\ trades[i].reason = "MUTUAL_EXCLUSIVITY"

\* C2 (as claimed): cash is >= 0 after every BUY or SELL trade the engine records.
C2_CashNonNegative == trades # << >> => current_capital >= 0

\* C3 (as claimed): after a day's processing is complete, the portfolio value
\* recorded for that day equals cash + the open positions at that day's prices.
C3_ValueAfterProcessing ==
    DayDone => Last(daily_portfolio_values)[2] = MarkToMarket

\* C3 (amended): the recorded value equals cash + the open positions at the
\* day's prices as they stand when it is recorded, before the day's stops and
\* signal are handled; after the day's processing the equality still holds on
\* every day on which no trade is recorded.
C3_ValueWhenRecorded ==
    /\ pc = "stops" => Last(daily_portfolio_values) = <<current_date, MarkToMarket>>
    /\ (DayDone /\ ~TradedOn(current_date - 1))
          => Last(daily_portfolio_values)[2] = MarkToMarket

\* C3 witness: a processed day without a trade ends with a position open, its
\* recorded value being the marked-to-market value and different from cash.
C3_Witness ==
    /\ DayDone
    /\ ~TradedOn(current_date - 1)
    /\ positions # EmptyDict
    /\ Last(daily_portfolio_values)[2] = MarkToMarket
    /\ Last(daily_portfolio_values)[2] # current_capital

\* C4: an active stop exists for an instrument iff a position exists for it.
C4_StopIffPosition == DOMAIN active_stops = DOMAIN positions

\* C4 witness: at the end of a day a position and its stop exist after an
\* earlier position was closed.
C4_Witness ==
    /\ pc = "loop"
    /\ DOMAIN positions = {"UNG"}
    /\ DOMAIN active_stops = {"UNG"}
    /\ \E i \in 1 .. Len(trades) : trades[i].action = "SELL"

\* The other instrument of the pair.
Other(sym) == IF sym = "UNG" THEN "KOLD" ELSE "UNG"

\* The quoted price of sym on the day being processed.
Quoted(sym) == IF sym = "UNG" THEN Val(ung_price) ELSE Val(kold_price)

\* C5: from the step that activates the trailing stop of a position until the
\* position closes, the trailing flag stays set and trailing_stop_price never
\* decreases.  A position is the same one while its entry date is unchanged
\* (a position is opened only by the day's single signal).
C5_TrailingMonotone ==
    [][\A sym \in Symbols :
          ( /\ sym \in DOMAIN active_stops
            /\ active_stops[sym].trailing_stop
            /\ sym \in DOMAIN active_stops'
            /\ active_stops'[sym].entry_date = active_stops[sym].entry_date )
          => /\ active_stops'[sym].trailing_stop
             /\ Val(active_stops'[sym].trailing_stop_price)
                   >= Val(active_stops[sym].trailing_stop_price)]_vars

\* C5 witness: after a day's stop evaluation the trailing stop is active and
\* its level is above the level the day's price alone would give: the price
\* fell after the activation and the level stayed.
C5_Witness ==
    /\ pc = "signal"
    /\ "UNG" \in DOMAIN active_stops
    /\ active_stops["UNG"].trailing_stop
    /\ Val(active_stops["UNG"].trailing_stop_price)
          > Val(ung_price) * 1000 * (100 - config.trailing_stop_pct)

\* The SELL trades for sym among the trades a step appends.
NewSells(sym) ==
    SelectSeq(NewTrades, LAMBDA t : t.symbol = sym /\ t.action = "SELL")

\* C6: in one day's stop evaluation a position is closed at most once; a day's
\* price at or below stop_loss_price closes it with reason STOP_LOSS even when
\* an active trailing stop is breached too; a price at or above
\* take_profit_price (and above the stop-loss) closes it with TAKE_PROFIT; a
\* TRAILING_STOP close happens only strictly between the two levels.
C6_StopPrecedence ==
    [][pc = "stops" =>
         \A sym \in DOMAIN positions :
            LET p == Quoted(sym) * 100000
                st == active_stops[sym]
            IN /\ Len(NewSells(sym)) <= 1
               /\ Len(NewTrades) = Len(NewSells("UNG")) + Len(NewSells("KOLD"))
               /\ p <= st.stop_loss_price
                     => /\ Len(NewSells(sym)) = 1
                        /\ NewSells(sym)[1].reason = "STOP_LOSS"
               /\ (p >= st.take_profit_price /\ p > st.stop_loss_price)
                     => /\ Len(NewSells(sym)) = 1
                        /\ NewSells(sym)[1].reason = "TAKE_PROFIT"
               /\ (Len(NewSells(sym)) = 1 /\ NewSells(sym)[1].reason = "TRAILING_STOP")
                     => /\ p > st.stop_loss_price
                        /\ p < st.take_profit_price
                        /\ st.trailing_stop
                           \/ profit_reached(st, Quoted(sym))
               /\ Len(NewSells(sym)) = 1 <=> sym \notin DOMAIN positions']_vars

\* C6 witness: a position entered at 100 two days ago saw 115 yesterday (its
\* trailing stop was activated at 111.55) and is closed today with reason
\* STOP_LOSS: today's price breaches the stop-loss and the trailing stop.
C6_Witness ==
    /\ pc = "signal"
    /\ Len(trades) >= 2
    /\ Last(trades).reason = "STOP_LOSS"
    /\ Last(trades).symbol = "UNG"
    /\ Last(trades).timestamp = current_date
    /\ trades[Len(trades) - 1].action = "BUY"
    /\ trades[Len(trades) - 1].price = 100100
    /\ trades[Len(trades) - 1].timestamp = current_date - 2
    /\ get_price_for_date(price_data.ung_price, current_date - 1) = Some(115)
    /\ Val(ung_price) * 100000 <= 115 * 1000 * (100 - config.trailing_stop_pct)

\* C7: with a position open in X when the day's signal is handled, a BUY
\* signal for the other instrument Y whose order is accepted appends exactly
\* a SELL of X with reason MUTUAL_EXCLUSIVITY followed by a BUY of Y with
\* reason SIGNAL, and leaves Y as the only open position.
C7_Flip ==
    [][\A X \in Symbols :
          ( /\ pc = "signal"
            /\ X \in DOMAIN positions
            /\ ~IsNone(signal)
            /\ Val(signal).action = "BUY"
            /\ Val(signal).symbol = Other(X)
            /\ Other(X) \in DOMAIN positions' )
          => /\ Len(NewTrades) = 2
             /\ NewTrades[1].symbol = X
             /\ NewTrades[1].action = "SELL"
             /\ NewTrades[1].reason = "MUTUAL_EXCLUSIVITY"
             /\ NewTrades[1].quantity = positions[X].quantity
             /\ NewTrades[2].symbol = Other(X)
             /\ NewTrades[2].action = "BUY"
             /\ NewTrades[2].reason = "SIGNAL"
             /\ DOMAIN positions' = {Other(X)}]_vars

\* C7 witness: a day ended with the flip just made: BUY KOLD, then on a later
\* day SELL KOLD for mutual exclusivity and BUY UNG.
C7_Witness ==
    /\ pc = "loop"
    /\ Len(trades) = 3
    /\ trades[1].action = "BUY" /\ trades[1].symbol = "KOLD"
    /\ trades[2].action = "SELL" /\ trades[2].symbol = "KOLD"
    /\ trades[2].reason = "MUTUAL_EXCLUSIVITY"
    /\ trades[3].action = "BUY" /\ trades[3].symbol = "UNG"
    /\ trades[3].timestamp = trades[2].timestamp
    /\ trades[3].timestamp > trades[1].timestamp
    /\ DOMAIN positions = {"UNG"}

\* Net cash flow of the trades log (mills): every SELL brings value - commission,
\* every BUY costs value + commission.
RECURSIVE NetFlow(_)
NetFlow(log) ==
    IF log = << >> THEN 0
    ELSE NetFlow(SubSeq(log, 1, Len(log) - 1))
         + (IF Last(log).action = "SELL"
            THEN Last(log).value - config.commission_per_trade
            ELSE 0 - (Last(log).value + config.commission_per_trade))

\* C8: in every reachable state cash = initial_capital - sum over the BUY
\* trades of (value + commission) + sum over the SELL trades of
\* (value - commission); and the returned final_capital - initial_capital
\* (total_return) equals that net sum over the returned trade log.
C8_RoundTripAccounting ==
    /\ current_capital = config.initial_capital * 1000 + NetFlow(trades)
    /\ ~IsNone(result) =>
          /\ Val(result).final_capital - Val(result).initial_capital
                = NetFlow(Val(result).trades)
          /\ Val(result).total_return = NetFlow(Val(result).trades)

\* C8 witness: a run returned after at least one BUY and one SELL, with a
\* non-zero net result.
C8_Witness ==
    /\ pc = "done"
    /\ Len(trades) >= 4
    /\ Val(result).total_return # 0
    /\ Val(result).total_return = NetFlow(trades)

\* The price _close_all_positions sells sym at: the last price dated at or
\* before end_date, less slippage (mills).
FinalPrice(sym) ==
    Val(get_price_for_date(IF sym = "UNG" THEN price_data.ung_price
                           ELSE price_data.kold_price, end_date))
    * (1000 - config.slippage_pct)

\* C9: when run_backtest returns no position and no active stop remains;
\* the liquidation step closes every position still open after the last day
\* by exactly one SELL dated end_date at the final available price less
\* slippage with the end-of-run reason (END_OF_BACKTEST in the code) and
\* appends nothing else; so in the returned log every BUY is followed by a
\* SELL of the same instrument.
C9_Liquidation ==
    /\ [](pc \in {"results", "done"} =>
            /\ positions = EmptyDict
            /\ active_stops = EmptyDict
            /\ \A i \in 1 .. Len(trades) :
                  trades[i].action = "BUY" =>
                     \E j \in (i + 1) .. Len(trades) :
                        /\ trades[j].action = "SELL"
                        /\ trades[j].symbol = trades[i].symbol)
    /\ [][(pc = "loop" /\ current_date > end_date) =>
            /\ Len(NewTrades) = Cardinality(DOMAIN positions)
            /\ \A sym \in DOMAIN positions :
                  /\ Len(NewSells(sym)) = 1
                  /\ NewSells(sym)[1].timestamp = end_date
                  /\ NewSells(sym)[1].quantity = positions[sym].quantity
                  /\ NewSells(sym)[1].price = FinalPrice(sym)
                  /\ NewSells(sym)[1].reason = "END_OF_BACKTEST"]_vars

\* C9 witness: the run returned and the last trade is the liquidation, dated
\* end_date, of a position opened on an earlier day, at a price that differs
\* from the entry day's.
C9_Witness ==
    /\ pc = "done"
    /\ Len(trades) >= 2
    /\ Last(trades).reason = "END_OF_BACKTEST"
    /\ Last(trades).timestamp = end_date
    /\ trades[Len(trades) - 1].action = "BUY"
    /\ trades[Len(trades) - 1].timestamp < end_date
    /\ Last(trades).price * (1000 + config.slippage_pct)
          # trades[Len(trades) - 1].price * (1000 - config.slippage_pct)

\* C10: the trade log is append-only (every step leaves the entries it found
\* in place and only adds after them) and chronologically ordered (the
\* timestamps of consecutive entries are non-decreasing).
C10_AppendOnlyOrdered ==
    /\ [][/\ Len(trades') >= Len(trades)
          /\ SubSeq(trades', 1, Len(trades)) = trades]_vars
    /\ [](\A i \in 1 .. Len(trades) - 1 :
             trades[i].timestamp <= trades[i + 1].timestamp)

\* C10 witness: a returned log with trades on three different days.
C10_Witness ==
    /\ pc = "done"
    /\ Len(trades) >= 4
    /\ Cardinality({trades[i].timestamp : i \in 1 .. Len(trades)}) = 3

\* The number of entries the portfolio-value series holds for day d.
EntriesFor(d) ==
    Cardinality({i \in 1 .. Len(daily_portfolio_values) :
                    daily_portfolio_values[i][1] = d})

\* Day d has a resolvable price for at least one of the two instruments.
\* (A lookup for d reads only rows dated <= d, which later days do not change.)
SomePriceOn(d) ==
    \/ ~IsNone(get_price_for_date(price_data.ung_price, d))
    \/ ~IsNone(get_price_for_date(price_data.kold_price, d))

\* C11 (as claimed): the portfolio-value series has exactly one entry for each
\* simulated day on which at least one instrument has a resolvable price, and
\* none for a day on which neither has.
C11_EntryPerPricedDay ==
    pc = "loop" =>
       \A d \in start_date .. (current_date - 1) :
          EntriesFor(d) = (IF SomePriceOn(d) THEN 1 ELSE 0)

\* The day's signal is a BUY for one of the two instruments and is about to
\* be handled.
BuySignalDue ==
    /\ pc = "signal"
    /\ ~IsNone(signal)
    /\ Val(signal).action = "BUY"
    /\ Val(signal).symbol \in Symbols

\* The BUY trades among the trades a step appends.
NewBuys == SelectSeq(NewTrades, LAMBDA t : t.action = "BUY")

\* The cash at the moment the order of the day's signal is sized and checked
\* (mills): the cash before the signal plus the proceeds of the closes the
\* signal makes first.
CashAtOrder ==
    current_capital + NetFlow(SelectSeq(NewTrades, LAMBDA t : t.action = "SELL"))

\* The whole dollars of the target notional of the day's order.
TargetNotional ==
    calculate_position_size([Engine EXCEPT !.current_capital = CashAtOrder],
                            Val(signal)).whole

\* q is floor(target / quoted price) and passes the three checks, for a
\* target notional in dollars and cash in mills.
Admissible(q, quoted, target, cash) ==
    /\ q * quoted <= target
    /\ target < (q + 1) * quoted
    /\ q > 0
    /\ q * quoted >= 100
    /\ q * quoted * 1000 <= cash

\* C12: handling a BUY signal records at most one BUY trade; it records one
\* and opens the position, for the full quantity, only if quantity =
\* floor(target notional / quoted price) > 0, quantity * quoted price >= 100
\* and quantity * quoted price <= the cash at that moment; if that quantity
\* fails a check no BUY is recorded and no position is open afterwards.
C12_OrderAdmission ==
    [][BuySignalDue =>
         LET sym == Val(signal).symbol
             target == TargetNotional
             cash == CashAtOrder
         IN /\ Len(NewBuys) <= 1
            /\ Len(NewBuys) = 1 =>
                  /\ NewBuys[1].symbol = sym
                  /\ Admissible(NewBuys[1].quantity, Quoted(sym), target, cash)
                  /\ DOMAIN positions' = {sym}
                  /\ positions'[sym].quantity = NewBuys[1].quantity
            /\ Len(NewBuys) = 0 =>
                  /\ positions' = EmptyDict
                  /\ ~Admissible(target \div Quoted(sym), Quoted(sym),
                                 target, cash)]_vars

\* C12 witness: a day ended on which a BUY signal for the primary instrument
\* at 94 recorded no BUY (one share, worth less than the floor), after an
\* earlier day's order had been admitted.
C12_Witness ==
    /\ DayDone
    /\ ~IsNone(signal)
    /\ Val(signal).action = "BUY"
    /\ Val(signal).symbol = "UNG"
    /\ Val(signal).timestamp = current_date - 1
    /\ Val(ung_price) = 94
    /\ \A i \in 1 .. Len(trades) :
          trades[i].action = "BUY" => trades[i].timestamp < current_date - 1
    /\ \E i \in 1 .. Len(trades) : trades[i].action = "BUY"

\* C13 (as claimed): when the order of a BUY signal is rejected, handling the
\* signal appends no trade to the log and leaves cash unchanged.
C13_RejectionLeavesLedger ==
    [][(BuySignalDue /\ Len(NewBuys) = 0) =>
          /\ trades' = trades
          /\ current_capital' = current_capital]_vars

\* C13 (amended): when the order is rejected no BUY is appended and no
\* position is opened; the trades appended are exactly the SELLs that close
\* the positions open when the signal arrives (reason MUTUAL_EXCLUSIVITY for
\* the other instrument, SIGNAL for the signal's own), made before the order
\* is sized, and cash changes by exactly their proceeds less commission; with
\* no position open the log and cash are unchanged.
C13_RejectionAfterCloses ==
    [][(BuySignalDue /\ Len(NewBuys) = 0) =>
          /\ Len(NewTrades) = Cardinality(DOMAIN positions)
          /\ \A sym \in DOMAIN positions :
                /\ Len(NewSells(sym)) = 1
                /\ NewSells(sym)[1].quantity = positions[sym].quantity
                /\ NewSells(sym)[1].reason =
                      (IF sym = Val(signal).symbol THEN "SIGNAL"
                       ELSE "MUTUAL_EXCLUSIVITY")
          /\ current_capital' = current_capital + NetFlow(NewTrades)
          /\ positions' = EmptyDict
          /\ active_stops' = EmptyDict
          /\ positions = EmptyDict =>
                /\ trades' = trades
                /\ current_capital' = current_capital]_vars

\* C13 witness: a day ended on which a BUY signal for the inverse instrument
\* closed the primary position for mutual exclusivity and its own order was
\* then rejected: the close is the last trade, and nothing is open.
C13_Witness ==
    /\ DayDone
    /\ ~IsNone(signal)
    /\ Val(signal).action = "BUY"
    /\ Val(signal).symbol = "KOLD"
    /\ Val(signal).timestamp = current_date - 1
    /\ trades # << >>
    /\ Last(trades).timestamp = current_date - 1
    /\ Last(trades).action = "SELL"
    /\ Last(trades).symbol = "UNG"
    /\ Last(trades).reason = "MUTUAL_EXCLUSIVITY"
    /\ positions = EmptyDict

\* Scenario A has just run: the defaults (initial capital 100000, base size
\* 1000), and the first day, with the primary instrument quoted at 100 and a
\* BUY signal for it of strength 0.5 (sizing multiplier 1), is complete.
ScenarioA ==
    /\ config = DefaultConfig
    /\ DayDone
    /\ current_date = start_date + 1
    /\ Val(ung_price) = 100
    /\ ~IsNone(signal)
    /\ Val(signal).action = "BUY"
    /\ Val(signal).symbol = "UNG"
    /\ Val(signal).total_signal = 5

\* x (in 1/100000 dollar) is within half a dollar of d dollars.
About(x, d) == Abs(x - d * 100000) <= 50000

\* C14 (as claimed): Scenario A produces one BUY trade with reason SIGNAL and
\* quantity 9, and an active stop with stop_loss_price about 95 and
\* take_profit_price about 115, trailing inactive.
C14_ScenarioA_Quantity9 ==
    ScenarioA =>
       /\ Len(trades) = 1
       /\ trades[1].action = "BUY"
       /\ trades[1].reason = "SIGNAL"
       /\ trades[1].quantity = 9
       /\ DOMAIN active_stops = {"UNG"}
       /\ About(active_stops["UNG"].stop_loss_price, 95)
       /\ About(active_stops["UNG"].take_profit_price, 115)
       /\ ~active_stops["UNG"].trailing_stop

\* C14 (amended): Scenario A produces one BUY trade with reason SIGNAL and
\* quantity 10 = floor(1000 / 100) at the executed price 100.1 (value 1001),
\* leaves cash 100000 - 1001 - 1, and an active stop with stop_loss_price
\* 95.095 and take_profit_price 115.115 (about 95 and 115), trailing inactive.
C14_ScenarioA_Quantity10 ==
    ScenarioA =>
       /\ Len(trades) = 1
       /\ trades[1].action = "BUY"
       /\ trades[1].symbol = "UNG"
       /\ trades[1].reason = "SIGNAL"
       /\ trades[1].quantity = 10
       /\ trades[1].price = 100100
       /\ trades[1].value = 1001000
       /\ current_capital = 100000000 - 1001000 - 1000
       /\ DOMAIN positions = {"UNG"}
       /\ positions["UNG"].quantity = 10
       /\ DOMAIN active_stops = {"UNG"}
       /\ active_stops["UNG"].entry_price = 100100
       /\ active_stops["UNG"].stop_loss_price = 9509500
       /\ active_stops["UNG"].take_profit_price = 11511500
       /\ About(active_stops["UNG"].stop_loss_price, 95)
       /\ About(active_stops["UNG"].take_profit_price, 115)
       /\ ~active_stops["UNG"].trailing_stop
       /\ IsNone(active_stops["UNG"].trailing_stop_price)

\* C14 witness: Scenario A has run and its BUY is in the log.
C14_Witness ==
    /\ ScenarioA
    /\ Len(trades) = 1
    /\ trades[1].action = "BUY"
    /\ trades[1].timestamp = start_date

\* C15: a day's stop evaluation that finds a position open with the day's
\* quoted price at or below its stop_loss_price appends exactly one trade for
\* it, a SELL of the whole position dated that day with reason STOP_LOSS at
\* the quoted price * (1 - slippage) and not at the stop level, and removes
\* the position and its stop; so no position survives a stop evaluation with
\* the price at or below its stop-loss (it is closed on the first such day),
\* and a stop evaluation appends nothing for an instrument without position.
C15_StopLossExit ==
    /\ [][pc = "stops" =>
            \A sym \in Symbols :
               IF sym \in DOMAIN positions
               THEN Quoted(sym) * 100000 <= active_stops[sym].stop_loss_price
                       => /\ NewTrades = NewSells(sym)
                          /\ Len(NewSells(sym)) = 1
                          /\ NewSells(sym)[1].timestamp = current_date
                          /\ NewSells(sym)[1].reason = "STOP_LOSS"
                          /\ NewSells(sym)[1].quantity = positions[sym].quantity
                          /\ NewSells(sym)[1].price
                                = Quoted(sym) * (1000 - config.slippage_pct)
                          /\ NewSells(sym)[1].price * 100
                                # active_stops[sym].stop_loss_price
                          /\ sym \notin DOMAIN positions'
                          /\ sym \notin DOMAIN active_stops'
               ELSE /\ NewSells(sym) = << >>
                    /\ sym \notin DOMAIN active_stops']_vars
    /\ [](pc = "signal" =>
            \A sym \in DOMAIN positions :
               Quoted(sym) * 100000 > active_stops[sym].stop_loss_price)

\* C15 witness (Scenario C): a position in the primary instrument entered at
\* the quoted price 100 on an earlier day has just been closed, on a day
\* quoted at 94, by a STOP_LOSS SELL at 94 * 0.999 = 93.906; nothing is open.
C15_Witness ==
    /\ pc = "signal"
    /\ Len(trades) = 2
    /\ trades[1].action = "BUY"
    /\ trades[1].symbol = "UNG"
    /\ trades[1].price = 100100
    /\ trades[1].timestamp < current_date
    /\ trades[2].action = "SELL"
    /\ trades[2].symbol = "UNG"
    /\ trades[2].reason = "STOP_LOSS"
    /\ trades[2].timestamp = current_date
    /\ trades[2].price = 93906
    /\ Val(ung_price) = 94
    /\ positions = EmptyDict
    /\ active_stops = EmptyDict

\* The quoted price of the primary instrument k days before the day being
\* processed.
UngDaysAgo(k) == get_price_for_date(price_data.ung_price, current_date - k)

\* The day's stops have been evaluated and a position in the primary
\* instrument entered k days ago at the quoted price 100 saw no trade between
\* its entry and today: the log's BUY of that day is followed by today's
\* trades only.
HeldSince(k) ==
    /\ pc = "signal"
    /\ \E i \in 1 .. Len(trades) :
          /\ trades[i].action = "BUY"
          /\ trades[i].symbol = "UNG"
          /\ trades[i].timestamp = current_date - k
          /\ trades[i].price = 100100
          /\ \A j \in (i + 1) .. Len(trades) : trades[j].timestamp = current_date

\* The stages of Scenario D after the day's stop evaluation: the day quoted
\* 110, the day quoted 115 after it, the day quoted 108 after both.
ScenarioD_110 == HeldSince(1) /\ Val(ung_price) = 110

ScenarioD_115 == HeldSince(2) /\ UngDaysAgo(1) = Some(110) /\ Val(ung_price) = 115

ScenarioD_108 ==
    /\ HeldSince(3)
    /\ UngDaysAgo(2) = Some(110)
    /\ UngDaysAgo(1) = Some(115)
    /\ Val(ung_price) = 108

\* The position was closed today by one SELL with reason TRAILING_STOP.
ClosedByTrailingStop ==
    /\ Last(trades).action = "SELL"
    /\ Last(trades).symbol = "UNG"
    /\ Last(trades).reason = "TRAILING_STOP"
    /\ Last(trades).timestamp = current_date
    /\ trades[Len(trades) - 1].action = "BUY"
    /\ "UNG" \notin DOMAIN positions
    /\ "UNG" \notin DOMAIN active_stops

\* C16 (as claimed): the trailing stop is activated on the day quoted 110 with
\* a trailing price about 106.7, it is about 111.55 after the day quoted 115,
\* and the day quoted 108 closes the position with reason TRAILING_STOP.
C16_ScenarioD_ActivatesAt110 ==
    /\ ScenarioD_110 =>
          /\ active_stops["UNG"].trailing_stop
          /\ Abs(Val(active_stops["UNG"].trailing_stop_price) - 10670000) <= 50000
    /\ ScenarioD_115 =>
          /\ active_stops["UNG"].trailing_stop
          /\ Abs(Val(active_stops["UNG"].trailing_stop_price) - 11155000) <= 50000
    /\ ScenarioD_108 => ClosedByTrailingStop

\* C16 (amended): the day quoted 110 does not activate the trailing stop (the
\* profit is measured from the executed entry price 100.1 and is below 10%);
\* the day quoted 115 activates it with trailing price 111.55; the day quoted
\* 108 closes the position with reason TRAILING_STOP at 108 * 0.999,
\* because 108 <= 111.55.
C16_ScenarioD_ActivatesAt115 ==
    /\ ScenarioD_110 =>
          /\ ~active_stops["UNG"].trailing_stop
          /\ IsNone(active_stops["UNG"].trailing_stop_price)
          /\ (110 * 1000 - 100100) * 10 < 100100
    /\ ScenarioD_115 =>
          /\ active_stops["UNG"].trailing_stop
          /\ active_stops["UNG"].trailing_stop_price = Some(11155000)
    /\ ScenarioD_108 =>
          /\ ClosedByTrailingStop
          /\ Last(trades).price = 107892
          /\ 108 * 100000 <= 11155000

\* C16 witness: the day quoted 108 has closed the position held over the
\* whole path.
C16_Witness ==
    /\ ScenarioD_108
    /\ ClosedByTrailingStop

\* run_backtest has ended: it returned a result or raised.
Ended == pc \in {"done", "raised"}

\* C17: a run that records zero trades returns (it does not raise) with
\* win_rate, profit_factor, sharpe_ratio and max_drawdown all 0.0.
C17_ZeroTrades ==
    (Ended /\ trades = << >>) =>
       /\ pc = "done"
       /\ ~IsNone(result)
       /\ Val(result).win_rate = Zero
       /\ Val(result).profit_factor = Zero
       /\ Val(result).sharpe_ratio = Zero
       /\ Val(result).max_drawdown = Zero

\* C17 witness: a run over three processed days, one of them with a BUY
\* signal whose order was rejected, returned with an empty trade log
\* (Scenario E).
C17_Witness ==
    /\ pc = "done"
    /\ trades = << >>
    /\ Val(result).trades = << >>
    /\ Len(Val(result).daily_portfolio_values) = 3
    /\ Len(Val(result).daily_returns) = 2
    /\ \E i \in 1 .. Len(signals) : signals[i].action = "BUY"

\* The statistics of the returned result.
ReturnedStatistics ==
    [ daily_returns |-> Val(result).daily_returns,
      max_drawdown |-> Val(result).max_drawdown,
      sharpe_ratio |-> Val(result).sharpe_ratio,
      win_rate |-> Val(result).win_rate,
      avg_win |-> Val(result).avg_win,
      avg_loss |-> Val(result).avg_loss,
      profit_factor |-> Val(result).profit_factor ]

\* Computing the statistics again, on the trade log and the portfolio-value
\* series as the first computation left them, gives the returned output.
SecondCallSameOutput ==
    pc = "done" =>
       statistics(trades, trade_pnl, daily_portfolio_values) = ReturnedStatistics

\* C18 (as claimed): computing the statistics twice on the same trade log and
\* portfolio-value series yields identical output, and the computation
\* leaves the trade log entries as they were: it adds nothing to them that a
\* second computation finds.
C18_SummarizerPure ==
    /\ [](SecondCallSameOutput)
    /\ [][pc = "results" => (trades' = trades /\ trade_pnl' = trade_pnl)]_vars

\* C19 (as claimed): the statistics derivation never aborts a run; with no
\* portfolio value, a single value, a portfolio value of 0 or a zero initial
\* capital the series statistics are 0.0, with no completed round-trip the
\* trade statistics are 0.0, and run_backtest returns a result.
C19_StatisticsNeverAbort ==
    Ended =>
       /\ pc = "done"
       /\ ~IsNone(result)
       /\ ( \/ Len(daily_portfolio_values) <= 1
            \/ \E i \in 1 .. Len(daily_portfolio_values) :
                  daily_portfolio_values[i][2] = 0
            \/ config.initial_capital = 0 )
          => /\ Val(result).max_drawdown = Zero
             /\ Val(result).sharpe_ratio = Zero
       /\ trade_pnl = EmptyDict
          => /\ Val(result).win_rate = Zero
             /\ Val(result).avg_win = Zero
             /\ Val(result).avg_loss = Zero
             /\ Val(result).profit_factor = Zero

\* C20 (as claimed): when a price series of one of the instruments is missing
\* from price_data, run_backtest ends with a run-level error and returns no
\* result.
C20_UpstreamFailureFatal ==
    (Ended /\ key_error(price_data)) =>
       /\ pc = "raised"
       /\ IsNone(result)

\* The run the caller's data gives when an engine runs over it alone.
Alone == run_alone(signals, price_data, start_date, end_date)

\* C21: two engine instances run over the same signals and prices with their
\* steps interleaved in any order each end with the trade log, portfolio-value
\* series and final capital of a run made alone; a step of one instance leaves
\* the cash, positions, stops, trade log and series of the other as they were.
C21_RunIsolation ==
    /\ [](pc \in {"results", "done"} =>
            /\ Engine = Alone.engine
            /\ daily_portfolio_values = Alone.daily_portfolio_values
            /\ pc = "done" => /\ Val(result).trades = Alone.engine.trades
                              /\ Val(result).final_capital
                                    = Alone.engine.current_capital
                              /\ Val(result).daily_portfolio_values
                                    = Alone.daily_portfolio_values)
    /\ [](Val(other_engine).pc = "results" =>
            /\ Val(other_engine).engine = Alone.engine
            /\ Val(other_engine).daily_portfolio_values
                  = Alone.daily_portfolio_values)
    /\ [][/\ other_engine' # other_engine
             => UNCHANGED <<current_capital, positions, active_stops, trades,
                            daily_portfolio_values>>
          /\ <<current_capital, positions, active_stops, trades,
               daily_portfolio_values>>'
                # <<current_capital, positions, active_stops, trades,
                    daily_portfolio_values>>
             => other_engine' = other_engine]_vars

\* C21 witness: the second instance has finished a run with a stop-loss exit
\* and holds its log, while the first instance is in the middle of the same
\* run with that position still open, before the day's stop evaluation.
C21_Witness ==
    /\ Val(other_engine).pc = "results"
    /\ Len(Val(other_engine).engine.trades) >= 2
    /\ \E i \in 1 .. Len(Val(other_engine).engine.trades) :
          Val(other_engine).engine.trades[i].reason = "STOP_LOSS"
    /\ pc = "stops"
    /\ positions # EmptyDict
    /\ Len(trades) < Len(Val(other_engine).engine.trades)

\* C22: every call of run_backtest starts from cash = initial_capital with
\* empty positions, stops, trade log and portfolio-value series, whatever the
\* call before left; and a second call on the same engine with the same
\* arguments returns what the first call returned (the same trades, portfolio
\* values, final capital and statistics).
C22_StateReset ==
    /\ [][(pc \in {"idle", "done"} /\ pc' = "loop") =>
            /\ current_capital' = config.initial_capital * 1000
            /\ positions' = EmptyDict
            /\ active_stops' = EmptyDict
            /\ trades' = << >>
            /\ daily_portfolio_values' = << >>]_vars
    /\ []((pc = "done" /\ ~IsNone(first_result)) =>
            /\ Val(result).trades = Val(first_result).trades
            /\ Val(result).daily_portfolio_values
                  = Val(first_result).daily_portfolio_values
            /\ Val(result).final_capital = Val(first_result).final_capital
            /\ result = first_result)

\* C22 witness: the second call has returned, after a first call that left a
\* log of at least two trades and a capital different from the initial one.
C22_Witness ==
    /\ pc = "done"
    /\ ~IsNone(first_result)
    /\ Len(Val(first_result).trades) >= 2
    /\ Val(first_result).final_capital # config.initial_capital * 1000
    /\ Len(Val(result).trades) >= 2

StopReasons == {"STOP_LOSS", "TAKE_PROFIT", "TRAILING_STOP"}
SignalReasons == {"SIGNAL", "MUTUAL_EXCLUSIVITY"}

\* The indices of the log's trades dated d.
TradesOn(d) == {i \in 1 .. Len(trades) : trades[i].timestamp = d}

\* C23: on each processed day the portfolio value is recorded first, from the
\* state before the day's trades (that step leaves cash, positions, stops and
\* log alone); then the stops are evaluated (only stop-reason SELLs are
\* appended, the series is left alone, every position evaluated was opened
\* on an earlier day); then the signal is handled (only signal-reason trades
\* are appended).  So in the log of a day the stop SELLs precede the signal's
\* trades, and when a stop closed X and a BUY of X is recorded on the same day
\* the SELL precedes the BUY and X is open at the end of the day; a position
\* opened on day d still has the stop it was given at the end of day d.
C23_PerDayOrdering ==
    /\ [][/\ (pc = "loop" /\ pc' = "stops") =>
                /\ Engine' = Engine
                /\ daily_portfolio_values' =
                      Append(daily_portfolio_values,
                             <<current_date,
                               current_capital
                               + SumOver(DOMAIN positions,
                                    [s \in DOMAIN positions |->
                                        positions[s].quantity * 1000
                                        * (IF s = "UNG" THEN Val(ung_price')
                                           ELSE Val(kold_price'))])>>)
          /\ pc = "stops" =>
                /\ pc' = "signal"
                /\ daily_portfolio_values' = daily_portfolio_values
                /\ \A sym \in DOMAIN positions :
                      positions[sym].entry_date < current_date
                /\ \A i \in 1 .. Len(NewTrades) :
                      /\ NewTrades[i].action = "SELL"
                      /\ NewTrades[i].reason \in StopReasons
                      /\ NewTrades[i].timestamp = current_date
          /\ pc = "signal" =>
                /\ pc' = "loop"
                /\ current_date' = current_date + 1
                /\ daily_portfolio_values' = daily_portfolio_values
                /\ \A i \in 1 .. Len(NewTrades) :
                      /\ NewTrades[i].reason \in SignalReasons
                      /\ NewTrades[i].timestamp = current_date]_vars
    /\ [](\A i \in 1 .. Len(trades), j \in 1 .. Len(trades) :
             ( /\ trades[i].timestamp = trades[j].timestamp
               /\ trades[i].reason \in StopReasons
               /\ trades[j].reason \in SignalReasons ) => i < j)
    /\ [](DayDone =>
            \A i \in TradesOn(current_date - 1) :
               trades[i].action = "BUY" =>
                  /\ i = Len(trades)
                  /\ DOMAIN positions = {trades[i].symbol}
                  /\ positions[trades[i].symbol].entry_date = current_date - 1
                  /\ active_stops[trades[i].symbol].entry_date = current_date - 1
                  /\ ~active_stops[trades[i].symbol].trailing_stop
                  /\ active_stops[trades[i].symbol].stop_loss_price
                        = trades[i].price * (100 - config.default_stop_loss_pct))

\* C23 witness: a day ended on which a stop closed the primary position and a
\* BUY signal for the primary instrument reopened it: the day's log is the
\* stop's SELL followed by the BUY, and the position is open.
C23_Witness ==
    /\ DayDone
    /\ Len(trades) >= 3
    /\ trades[Len(trades) - 1].timestamp = current_date - 1
    /\ trades[Len(trades) - 1].action = "SELL"
    /\ trades[Len(trades) - 1].symbol = "UNG"
    /\ trades[Len(trades) - 1].reason \in StopReasons
    /\ Last(trades).timestamp = current_date - 1
    /\ Last(trades).action = "BUY"
    /\ Last(trades).symbol = "UNG"
    /\ DOMAIN positions = {"UNG"}
    /\ Last(daily_portfolio_values)[2] # MarkToMarket

\* C24: handling a BUY signal for an instrument X that is held first closes
\* the held position in full by a SELL of reason SIGNAL at the quoted price
\* less slippage, and then places the order: the SELL is the first trade
\* appended, the new BUY (when the order is accepted) the second and last,
\* both dated the current day; the commission is charged on each leg and the
\* slippage is against the engine on each leg; X is open afterwards exactly
\* when the BUY was recorded, as a new position entered that day.
C24_SignalRefresh ==
    [][\A X \in Symbols :
          ( /\ BuySignalDue
            /\ Val(signal).symbol = X
            /\ X \in DOMAIN positions )
          => /\ Len(NewTrades) = 1 + Len(NewBuys)
             /\ NewTrades[1].action = "SELL"
             /\ NewTrades[1].symbol = X
             /\ NewTrades[1].reason = "SIGNAL"
             /\ NewTrades[1].timestamp = current_date
             /\ NewTrades[1].quantity = positions[X].quantity
             /\ NewTrades[1].price = Quoted(X) * (1000 - config.slippage_pct)
             /\ NewTrades[1].value = positions[X].quantity * NewTrades[1].price
             /\ Len(NewBuys) <= 1
             /\ X \in DOMAIN positions' <=> Len(NewBuys) = 1
             /\ Len(NewBuys) = 0 =>
                   current_capital' = current_capital + NewTrades[1].value
                                      - config.commission_per_trade
             /\ Len(NewBuys) = 1 =>
                   /\ NewTrades[2].action = "BUY"
                   /\ NewTrades[2].symbol = X
                   /\ NewTrades[2].reason = "SIGNAL"
                   /\ NewTrades[2].timestamp = current_date
                   /\ NewTrades[2].price = Quoted(X) * (1000 + config.slippage_pct)
                   /\ NewTrades[2].price > NewTrades[1].price
                   /\ current_capital' =
                         current_capital
                         + NewTrades[1].value - config.commission_per_trade
                         - NewTrades[2].value - config.commission_per_trade
                   /\ positions'[X].entry_date = current_date
                   /\ positions'[X].quantity = NewTrades[2].quantity
                   /\ active_stops'[X].entry_date = current_date]_vars

\* C24 witness: a day ended on which a BUY signal for the primary instrument,
\* held since an earlier day and not stopped out, closed it with reason SIGNAL
\* and bought it again: three trades, the last two dated that day.
C24_Witness ==
    /\ DayDone
    /\ Len(trades) = 3
    /\ trades[1].action = "BUY" /\ trades[1].symbol = "UNG"
    /\ trades[1].timestamp < current_date - 1
    /\ trades[2].action = "SELL" /\ trades[2].symbol = "UNG"
    /\ trades[2].reason = "SIGNAL"
    /\ trades[2].timestamp = current_date - 1
    /\ trades[3].action = "BUY" /\ trades[3].symbol = "UNG"
    /\ trades[3].timestamp = current_date - 1
    /\ positions["UNG"].entry_date = current_date - 1

\* C25: handling a BUY signal for Y while a position in the other instrument X
\* is open closes X in full, first, by a SELL of reason MUTUAL_EXCLUSIVITY
\* dated that day at X's quoted price less slippage, whether or not the order
\* for Y is then accepted: X and its stop are gone afterwards; when the order
\* is rejected that SELL is the only trade appended and no position is open,
\* when it is accepted Y is the only open position.
C25_OtherInstrumentForcesFlat ==
    [][\A X \in Symbols :
          ( /\ BuySignalDue
            /\ Val(signal).symbol = Other(X)
            /\ X \in DOMAIN positions )
          => /\ Len(NewTrades) >= 1
             /\ NewTrades[1].action = "SELL"
             /\ NewTrades[1].symbol = X
             /\ NewTrades[1].reason = "MUTUAL_EXCLUSIVITY"
             /\ NewTrades[1].timestamp = current_date
             /\ NewTrades[1].quantity = positions[X].quantity
             /\ NewTrades[1].price = Quoted(X) * (1000 - config.slippage_pct)
             /\ X \notin DOMAIN positions'
             /\ X \notin DOMAIN active_stops'
             /\ Len(NewBuys) = 0 =>
                   /\ Len(NewTrades) = 1
                   /\ positions' = EmptyDict
                   /\ active_stops' = EmptyDict
             /\ Len(NewBuys) = 1 =>
                   /\ Len(NewTrades) = 2
                   /\ NewTrades[2].symbol = Other(X)
                   /\ DOMAIN positions' = {Other(X)}]_vars

\* C25 witness: the primary position bought on an earlier day was closed for
\* mutual exclusivity by a BUY signal for the inverse instrument whose order
\* did not fit the cash: the log is the BUY and that SELL, nothing is open
\* and no stop is left.
C25_Witness ==
    /\ DayDone
    /\ Len(trades) = 2
    /\ trades[1].action = "BUY" /\ trades[1].symbol = "UNG"
    /\ trades[1].timestamp < current_date - 1
    /\ trades[2].action = "SELL" /\ trades[2].symbol = "UNG"
    /\ trades[2].reason = "MUTUAL_EXCLUSIVITY"
    /\ trades[2].timestamp = current_date - 1
    /\ Val(signal).symbol = "KOLD"
    /\ Val(signal).timestamp = current_date - 1
    /\ positions = EmptyDict
    /\ active_stops = EmptyDict

\* The configured threshold of the side of sym: the buy threshold for the
\* primary instrument, the sell threshold for the inverse instrument (tenths).
ThresholdOfSide(sym) ==
    IF sym = config.symbol THEN config.buy_threshold ELSE config.sell_threshold

\* The whole dollars of
\*   clamp(base * min(|total| / |threshold|, 2) * min(cash / initial, 1), min, max)
\* for cash in mills, total and threshold in tenths: with t = |threshold|,
\* size * t * initial = base * min(|total|, 2 t) * min(cash, initial) / 1000.
NotionalByThreshold(cash, total, threshold) ==
    LET t == Abs(threshold)
        cf == Min(cash, config.initial_capital * 1000)
        bt == config.base_position_size * Min(Abs(total), 2 * t)
        W == bt * (cf \div 1000) + (bt * (cf % 1000)) \div 1000
        whole == W \div (t * config.initial_capital)
    IN IF whole >= config.max_position_size THEN config.max_position_size
       ELSE IF whole < config.min_position_size THEN config.min_position_size
       ELSE whole

\* C26 (as claimed): the quantity of a recorded BUY is
\* floor(target notional / quoted price), the target notional being sized on
\* |signal.total| over the configured threshold of the signalled side.
C26_SizingByConfiguredThreshold ==
    [][(BuySignalDue /\ Len(NewBuys) = 1) =>
          NewBuys[1].quantity =
             NotionalByThreshold(CashAtOrder, Val(signal).total_signal,
                                 ThresholdOfSide(Val(signal).symbol))
             \div Quoted(Val(signal).symbol)]_vars

\* C27: an accepted order appends one BUY trade, last, with reason SIGNAL at
\* price = quoted * (1 + slippage_pct) and value = quantity * price, reduces
\* the cash at that moment by value + commission, and creates the position
\* (quantity, avg_price and entry date of the trade) with a fresh stop:
\* entry_price the executed price, stop_loss = entry * (1 - stop_loss_pct),
\* take_profit = entry * (1 + take_profit_pct), trailing inactive without a
\* trailing price.  While the position stays open (same entry date) every
\* step leaves entry_price, stop_loss_price and take_profit_price unchanged.
C27_BuyExecution ==
    /\ [][(BuySignalDue /\ Len(NewBuys) = 1) =>
            LET sym == Val(signal).symbol
                buy == Last(trades')
            IN /\ buy = NewBuys[1]
               /\ buy.symbol = sym
               /\ buy.reason = "SIGNAL"
               /\ buy.timestamp = current_date
               /\ buy.signal_strength = Val(signal).total_signal
               /\ buy.confidence = Val(signal).confidence
               /\ buy.price = Quoted(sym) * (1000 + config.slippage_pct)
               /\ buy.value = buy.quantity * buy.price
               /\ current_capital' =
                     CashAtOrder - buy.value - config.commission_per_trade
               /\ DOMAIN positions' = {sym}
               /\ positions'[sym] =
                     [ symbol |-> sym, quantity |-> buy.quantity,
                       avg_price |-> buy.price, entry_date |-> current_date ]
               /\ DOMAIN active_stops' = {sym}
               /\ active_stops'[sym] =
                     [ entry_price |-> buy.price,
                       stop_loss_price |->
                           buy.price * (100 - config.default_stop_loss_pct),
                       take_profit_price |->
                           buy.price * (100 + config.take_profit_pct),
                       entry_date |-> current_date,
                       trailing_stop |-> FALSE,
                       trailing_stop_price |-> None ]]_vars
    /\ [][\A sym \in Symbols :
             ( /\ sym \in DOMAIN active_stops
               /\ sym \in DOMAIN active_stops'
               /\ active_stops'[sym].entry_date = active_stops[sym].entry_date )
             => /\ active_stops'[sym].entry_price = active_stops[sym].entry_price
                /\ active_stops'[sym].stop_loss_price
                      = active_stops[sym].stop_loss_price
                /\ active_stops'[sym].take_profit_price
                      = active_stops[sym].take_profit_price]_vars

\* C27 witness: the primary instrument was bought at the quoted price 100
\* (executed 100.1, 10 shares) two days ago and was held since; today's stop
\* evaluation at 115 activated the trailing stop, and the stop still has the
\* levels of the entry, 95.095 and 115.115.
C27_Witness ==
    /\ HeldSince(2)
    /\ Len(trades) = 1
    /\ trades[1].quantity = 10
    /\ trades[1].value = 1001000
    /\ current_capital = 100000000 - 1001000 - 1000
    /\ positions["UNG"] = [ symbol |-> "UNG", quantity |-> 10,
                            avg_price |-> 100100,
                            entry_date |-> current_date - 2 ]
    /\ active_stops["UNG"].trailing_stop
    /\ active_stops["UNG"].entry_price = 100100
    /\ active_stops["UNG"].stop_loss_price = 9509500
    /\ active_stops["UNG"].take_profit_price = 11511500

\* The calls of _close_position the engine can make from the current state:
\* the reasons it can give and the date it passes.
CloseReasons ==
    IF pc = "stops" THEN StopReasons
    ELSE IF pc = "signal" THEN SignalReasons
    ELSE {"END_OF_BACKTEST"}

CloseDate == IF pc \in {"stops", "signal"} THEN current_date ELSE end_date

\* d restricted to the keys other than k.
Without(d, k) == [x \in (DOMAIN d) \ {k} |-> d[x]]

\* C28: in every state from which the engine closes positions, closing
\* instrument sym at the day's quoted price with any reason: when sym has an
\* open position, appends exactly one trade, a SELL of sym for the full held
\* quantity at quoted * (1 - slippage_pct) with that reason, adds the proceeds
\* less the commission to cash, removes the position and the stop of sym and
\* leaves the entries of the other instrument as they were; when sym has no
\* open position, changes nothing.
C28_CloseExecution ==
    ( /\ \/ pc \in {"stops", "signal"}
         \/ pc = "loop" /\ current_date > end_date
      /\ ~IsNone(ung_price) /\ ~IsNone(kold_price) )
    => \A sym \in Symbols, reason \in CloseReasons :
          LET e == close_position(Engine, sym, CloseDate, Quoted(sym), reason)
          IN IF sym \in DOMAIN positions
             THEN LET price == Quoted(sym) * (1000 - config.slippage_pct)
                      proceeds == positions[sym].quantity * price
                  IN /\ e.trades =
                           Append(trades,
                                  [ timestamp |-> CloseDate, symbol |-> sym,
                                    action |-> "SELL",
                                    quantity |-> positions[sym].quantity,
                                    price |-> price, value |-> proceeds,
                                    signal_strength |-> 0, confidence |-> 0,
                                    reason |-> reason ])
                     /\ e.current_capital = current_capital + proceeds
                                            - config.commission_per_trade
                     /\ sym \notin DOMAIN e.positions
                     /\ sym \notin DOMAIN e.active_stops
                     /\ Without(e.positions, sym) = Without(positions, sym)
                     /\ Without(e.active_stops, sym) = Without(active_stops, sym)
             ELSE e = Engine

\* C28 witness: the primary position entered at the quoted price 100 has just
\* been closed at the quote 116 (TAKE_PROFIT, executed 116 * 0.999 = 115.884,
\* 10 shares): cash holds the proceeds less the commission, neither position
\* nor stop is left, and a further close finds nothing to close.
C28_Witness ==
    /\ pc = "signal"
    /\ Len(trades) = 2
    /\ trades[1].action = "BUY" /\ trades[1].price = 100100
    /\ trades[2].action = "SELL" /\ trades[2].symbol = "UNG"
    /\ trades[2].reason = "TAKE_PROFIT"
    /\ trades[2].quantity = trades[1].quantity
    /\ trades[2].price = 115884
    /\ trades[2].value = 1158840
    /\ current_capital = 100000000 - 1001000 - 1000 + 1158840 - 1000
    /\ positions = EmptyDict
    /\ active_stops = EmptyDict
    /\ close_position(Engine, "UNG", current_date, 116, "SIGNAL") = Engine

\* The positions in the signal list of the signals dated d.
SignalsOn(sigs, d) == {i \in 1 .. Len(sigs) : sigs[i].timestamp = d}

\* The day's signal asks for nothing: there is none, or it is a HOLD.
NoBuySignal == IsNone(signal) \/ Val(signal).action = "HOLD"

\* No open position has a level breached by the day's quoted price.
NoStopBreached ==
    \A sym \in DOMAIN positions :
       LET p == Quoted(sym) * 100000
           st == active_stops[sym]
       IN /\ p > st.stop_loss_price
          /\ p < st.take_profit_price
          /\ st.trailing_stop => p > Val(st.trailing_stop_price)

\* C29: the signal of a day is the first signal of the list dated that day,
\* none if the list has no entry for it; on a day whose signal is a HOLD or
\* missing, handling the signal changes nothing (no position is opened or
\* flipped), so the only trades of the day are the stop-triggered SELLs of the
\* stop evaluation, and when no stop is breached the day leaves cash, positions
\* and the trade log unchanged.
C29_HoldAndMissingSignals ==
    /\ [][(pc = "loop" /\ current_date <= end_date) =>
            LET dated == SignalsOn(signals', current_date)
            IN IF dated = {} THEN signal' = None
               ELSE signal' =
                       Some(signals'[CHOOSE i \in dated :
                                        \A j \in dated : i <= j])]_vars
    /\ [][(pc = "signal" /\ NoBuySignal) =>
            /\ Engine' = Engine
            /\ daily_portfolio_values' = daily_portfolio_values]_vars
    /\ [][(pc = "stops" /\ NoBuySignal) =>
            /\ \A i \in 1 .. Len(NewTrades) :
                  /\ NewTrades[i].action = "SELL"
                  /\ NewTrades[i].reason \in StopReasons
            /\ NoStopBreached =>
                  /\ trades' = trades
                  /\ current_capital' = current_capital
                  /\ positions' = positions]_vars
    /\ []((DayDone /\ NoBuySignal) =>
            \A i \in TradesOn(current_date - 1) :
               /\ trades[i].action = "SELL"
               /\ trades[i].reason \in StopReasons)

\* C29 witness: a day ended for which the list holds a HOLD followed by a BUY
\* for the inverse instrument: the HOLD was used, and the primary position
\* bought on an earlier day is still open, its BUY being the only trade.
C29_Witness ==
    /\ DayDone
    /\ Len(signals) >= 2
    /\ signals[Len(signals) - 1].timestamp = current_date - 1
    /\ signals[Len(signals) - 1].action = "HOLD"
    /\ Last(signals).timestamp = current_date - 1
    /\ Last(signals).action = "BUY"
    /\ Last(signals).symbol = "KOLD"
    /\ signal = Some(signals[Len(signals) - 1])
    /\ Len(trades) = 1
    /\ trades[1].action = "BUY"
    /\ trades[1].timestamp < current_date - 1
    /\ DOMAIN positions = {"UNG"}

\* The days of the run gone through so far that were skipped: they have no
\* entry in the portfolio-value series.
SkippedDays == {d \in start_date .. (current_date - 1) : EntriesFor(d) = 0}

\* C30: a day is skipped exactly when one of the two prices cannot be
\* resolved; the step that skips it changes neither cash, positions, stops,
\* trade log nor portfolio-value series; no trade is ever dated on a skipped
\* day, and every BUY in the log is dated on a processed day and carries out
\* the signal of its own date, so a BUY signal dated on a skipped day is not
\* executed on that day or on any later one.
C30_SkippedDay ==
    /\ [][(pc = "loop" /\ current_date <= end_date) =>
            /\ pc' = "loop" <=> (IsNone(ung_price') \/ IsNone(kold_price'))
            /\ pc' = "loop" =>
                  /\ Engine' = Engine
                  /\ daily_portfolio_values' = daily_portfolio_values
                  /\ current_date' = current_date + 1]_vars
    /\ [](pc \in {"loop", "results", "done"} =>
            /\ \A d \in SkippedDays : ~TradedOn(d)
            /\ \A i \in 1 .. Len(trades) :
                  trades[i].action = "BUY" =>
                     LET dated == SignalsOn(signals, trades[i].timestamp)
                         s == signals[CHOOSE k \in dated : \A j \in dated : k <= j]
                     IN /\ EntriesFor(trades[i].timestamp) = 1
                        /\ dated # {}
                        /\ s.action = "BUY"
                        /\ s.symbol = trades[i].symbol
                        /\ s.total_signal = trades[i].signal_strength)

\* C30 witness: the first day, for which the list holds a BUY signal, was
\* skipped (the primary instrument had no price yet); the second day, without
\* a BUY signal of its own, was processed and the run is past it with an
\* empty trade log, no position and the initial cash.
C30_Witness ==
    /\ DayDone
    /\ current_date = start_date + 2
    /\ SkippedDays = {start_date}
    /\ signals # << >>
    /\ signals[1].timestamp = start_date
    /\ signals[1].action = "BUY"
    /\ NoBuySignal
    /\ trades = << >>
    /\ positions = EmptyDict
    /\ current_capital = config.initial_capital * 1000
    /\ Len(daily_portfolio_values) = 1

\* The entries of a price series dated at or before d, and the latest of them.
EntriesUpTo(series, d) == { i \in DOMAIN series : series[i].timestamp <= d }
LatestUpTo(series, d) ==
    CHOOSE i \in EntriesUpTo(series, d) :
        \A j \in EntriesUpTo(series, d) : series[j].timestamp <= series[i].timestamp

\* C31: the price _process_day resolves for an instrument on date d is the
\* price dated d if the series has one, otherwise the price of the latest
\* entry dated before d, and None when the series has no entry at or before d;
\* an entry dated after d is never used.
C31_PriceResolution ==
    [][(pc = "loop" /\ current_date <= end_date) =>
          \A k \in {"ung_price", "kold_price"} :
             LET series == price_data[k]
                 got == IF k = "ung_price" THEN ung_price' ELSE kold_price'
                 upto == EntriesUpTo(series, current_date)
             IN /\ upto = {} <=> IsNone(got)
                /\ upto # {} =>
                      /\ got = Some(series[LatestUpTo(series, current_date)].price)
                      /\ \A i \in upto :
                            series[i].timestamp = current_date =>
                               got = Some(series[i].price)]_vars

\* The second day has no primary quote of its own and is priced at the first
\* day's.
C31_Witness ==
    /\ pc = "stops"
    /\ current_date = 2
    /\ Len(price_data.ung_price) = 1
    /\ price_data.ung_price[1].timestamp = 1
    /\ price_data.ung_price[1].price = 116
    /\ ung_price = Some(116)

\* The trades of the log's j-th trade's instrument that precede it, the SELLs
\* that close a round-trip (the latest earlier trade of the instrument is a
\* BUY: the most recent BUY not yet matched), and a round-trip's PnL.
EarlierOf(log, j) == { i \in 1 .. (j - 1) : log[i].symbol = log[j].symbol }
MatchedBuy(log, j) ==
    CHOOSE i \in EarlierOf(log, j) : \A k \in EarlierOf(log, j) : k <= i
RoundTrips(log) ==
    { j \in 1 .. Len(log) :
        /\ log[j].action = "SELL"
        /\ EarlierOf(log, j) # {}
        /\ log[MatchedBuy(log, j)].action = "BUY" }
RoundTripPnL(log) ==
    [ j \in RoundTrips(log) |-> log[j].value - log[MatchedBuy(log, j)].value ]

\* C32: in the returned result, with each SELL paired with the most recent
\* unmatched BUY of its instrument and PnL = SELL value - BUY value,
\* win_rate = wins / round-trips, avg_win and avg_loss are the means of the
\* positive and of the negative PnLs, profit_factor = sum of wins / |sum of
\* losses|, +infinity with a round-trip and no losing one, and 0.0 without
\* trades.
C32_TradeStatistics ==
    pc = "done" =>
       LET r == Val(result)
           pnl == RoundTripPnL(trades)
           wins == { j \in DOMAIN pnl : pnl[j] > 0 }
           losses == { j \in DOMAIN pnl : pnl[j] < 0 }
       IN /\ trade_pnl = pnl
          /\ trades = << >> =>
                /\ r.win_rate = Zero /\ r.avg_win = Zero
                /\ r.avg_loss = Zero /\ r.profit_factor = Zero
          /\ trades # << >> =>
                /\ DOMAIN pnl # {}
                /\ r.win_rate = Frac(Cardinality(wins), Cardinality(DOMAIN pnl))
                /\ wins # {} =>
                      r.avg_win = Frac(SumOver(wins, pnl), Cardinality(wins))
                /\ losses # {} =>
                      /\ r.avg_loss = Frac(SumOver(losses, pnl), Cardinality(losses))
                      /\ r.profit_factor =
                            Frac(SumOver(wins, pnl), Abs(SumOver(losses, pnl)))
                /\ losses = {} => r.profit_factor = Inf

\* A returned result with a winning and a losing round-trip.
C32_Witness ==
    /\ pc = "done"
    /\ Len(trades) = 4
    /\ Val(result).win_rate = [num |-> 1, den |-> 2]
    /\ Val(result).avg_win.num > 0
    /\ Val(result).avg_loss.num < 0
    /\ Val(result).profit_factor.den > 0
    /\ Val(result).profit_factor.num > 0

\* The largest of the first i portfolio values, and the i-th value's drawdown
\* from it.
PeakUpTo(values, i) ==
    CHOOSE p \in { values[k][2] : k \in 1 .. i } :
        \A k \in 1 .. i : values[k][2] <= p
DrawdownAt(values, i) ==
    Frac(PeakUpTo(values, i) - values[i][2], PeakUpTo(values, i))

\* C33: the returned max_drawdown is the maximum over all i of
\* (P_i - v_i) / P_i, P_i being the largest portfolio value among the first i;
\* it is 0.0 for an empty and for a non-decreasing series, and lies in [0, 1)
\* when all values are positive.
C33_MaxDrawdown ==
    pc = "done" =>
       LET values == daily_portfolio_values
           max_dd == Val(result).max_drawdown
           days == 1 .. Len(values)
       IN /\ values = << >> => max_dd = Zero
          /\ (\A i \in days : values[i][2] > 0) =>
                /\ values # << >> =>
                      /\ \E i \in days : max_dd = DrawdownAt(values, i)
                      /\ \A i \in days : ~FracLess(max_dd, DrawdownAt(values, i))
                /\ 0 <= max_dd.num /\ max_dd.num < max_dd.den
          /\ (\A i \in days : i > 1 => values[i - 1][2] <= values[i][2]) =>
                max_dd = Zero

\* A returned result whose series rose above its first value and fell back
\* afterwards, but not below the first value.
C33_Witness ==
    /\ pc = "done"
    /\ Len(daily_portfolio_values) = 3
    /\ daily_portfolio_values[1][2] < daily_portfolio_values[3][2]
    /\ daily_portfolio_values[3][2] < daily_portfolio_values[2][2]
    /\ Val(result).max_drawdown =
          Frac(daily_portfolio_values[2][2] - daily_portfolio_values[3][2],
               daily_portfolio_values[2][2])

\* C34: run_backtest processes each calendar day from start_date to end_date
\* exactly once, in increasing order (current_date starts at start_date, moves
\* only by one day and only when a day's processing ends, and the loop is left
\* only past end_date), then liquidates and returns; with start_date > end_date
\* no day is processed and the result has final_capital = initial_capital and
\* no trade.
C34_TerminationAndCoverage ==
    /\ [][/\ (pc \in {"idle", "done"} /\ pc' = "loop") =>
                current_date' = start_date
          /\ (pc = "loop" /\ current_date <= end_date) =>
                \/ pc' = "stops" /\ current_date' = current_date
                \/ pc' = "loop" /\ current_date' = current_date + 1
          /\ pc = "stops" => (pc' = "signal" /\ current_date' = current_date)
          /\ pc = "signal" => (pc' = "loop" /\ current_date' = current_date + 1)
          /\ pc' = "results" =>
                /\ pc = "loop"
                /\ current_date = end_date + 1
                /\ current_date' = current_date
                /\ \A i \in 1 .. Len(trades') :
                      i > Len(trades) =>
                         /\ trades'[i].action = "SELL"
                         /\ trades'[i].reason = "END_OF_BACKTEST"
          /\ pc' = "done" => pc = "results"]_vars
    /\ (pc = "loop") ~> (pc = "done")
    /\ [](pc = "done" =>
            /\ ~IsNone(result)
            /\ positions = EmptyDict
            /\ \A i \in 1 .. Len(daily_portfolio_values) :
                  /\ daily_portfolio_values[i][1] \in start_date .. end_date
                  /\ i > 1 => daily_portfolio_values[i - 1][1]
                                 < daily_portfolio_values[i][1]
            /\ start_date > end_date =>
                  /\ Val(result).final_capital = config.initial_capital * 1000
                  /\ Val(result).trades = << >>
                  /\ daily_portfolio_values = << >>)

\* A call for two days has returned, both days processed and the position of
\* the first day liquidated.
C34_Witness ==
    /\ pc = "done"
    /\ end_date = start_date + 1
    /\ current_date = end_date + 1
    /\ Len(daily_portfolio_values) = 2
    /\ Len(trades) = 2
    /\ trades[2].reason = "END_OF_BACKTEST"

\* The i-th signal is a BUY, and so is, for the same instrument, the signal of
\* each of the n most recent calendar days, its own day included.
BuyOnEachOfLastDays(sigs, i, n) ==
    /\ sigs[i].action = "BUY"
    /\ \A k \in 0 .. (n - 1) :
          \E j \in 1 .. Len(sigs) :
             /\ sigs[j].timestamp = sigs[i].timestamp - k
             /\ sigs[j].action = "BUY"
             /\ sigs[j].symbol = sigs[i].symbol

\* C35 (as claimed): with N = min_consecutive_days, a BUY signal is passed
\* through as BUY only if the daily signals of the N most recent consecutive
\* calendar days, the current day included, are all BUY for the same
\* instrument; otherwise it is replaced by a HOLD signal with an empty symbol
\* and confidence 0.
C35_ConfirmationWindow ==
    ~IsNone(min_consecutive_days) =>
       \A i \in 1 .. Len(raw_signals) :
          /\ i <= Len(signals)
          /\ IF BuyOnEachOfLastDays(raw_signals, i, Val(min_consecutive_days))
             THEN signals[i] = raw_signals[i]
             ELSE /\ signals[i].action = "HOLD"
                  /\ signals[i].symbol = ""
                  /\ signals[i].confidence = Zero

\* The float 1.0.
One == [num |-> 1, den |-> 1]

\* C36: a generated signal is a BUY of the primary instrument exactly when
\* its total signal is above buy_threshold, a BUY of the inverse instrument
\* exactly when it is below sell_threshold, and a HOLD with empty symbol and
\* confidence 0 otherwise; the action is never SELL, and with
\* buy_threshold > 0 > sell_threshold the confidence of a BUY is in (1, 2].
C36_SignalAction ==
    \A i \in 1 .. Len(raw_signals) :
       LET sig == raw_signals[i]
           above == sig.total_signal > config.buy_threshold
           below == sig.total_signal < config.sell_threshold
       IN /\ (sig.action = "BUY" /\ sig.symbol = config.symbol) <=> above
          /\ (sig.action = "BUY" /\ sig.symbol = config.inverse_symbol) <=> below
          /\ (~above /\ ~below) =>
                /\ sig.action = "HOLD"
                /\ sig.symbol = ""
                /\ sig.confidence = Zero
          /\ sig.action \in {"BUY", "HOLD"}
          /\ (sig.action = "BUY" /\ config.buy_threshold > 0
                                 /\ config.sell_threshold < 0) =>
                /\ FracLess(One, sig.confidence)
                /\ ~FracLess(Two, sig.confidence)

\* Signals were generated for three days: one with the total signal at the buy
\* threshold, one above it and one below the sell threshold.
C36_Witness ==
    /\ Len(raw_signals) = 3
    /\ raw_signals[1].total_signal = config.buy_threshold
    /\ raw_signals[1].action = "HOLD"
    /\ raw_signals[2].total_signal > config.buy_threshold
    /\ raw_signals[2].symbol = config.symbol
    /\ raw_signals[2].confidence = Two
    /\ raw_signals[3].total_signal < config.sell_threshold
    /\ raw_signals[3].symbol = config.inverse_symbol

\* C40: apply_signal_confirmation returns one signal per input signal, in the
\* same order, with the same timestamp and sub-signal values; an input HOLD
\* is never turned into a BUY and every BUY of the output is an input BUY for
\* the same instrument.
C40_ConfirmationShape ==
    ~IsNone(min_consecutive_days) =>
       /\ Len(signals) = Len(raw_signals)
       /\ \A i \in 1 .. Len(raw_signals) :
             /\ i <= Len(signals)
             /\ signals[i].timestamp = raw_signals[i].timestamp
             /\ signals[i].temperature_signal = raw_signals[i].temperature_signal
             /\ signals[i].inventory_signal = raw_signals[i].inventory_signal
             /\ signals[i].storm_signal = raw_signals[i].storm_signal
             /\ raw_signals[i].action = "HOLD" => signals[i].action = "HOLD"
             /\ signals[i].action = "BUY" =>
                   /\ raw_signals[i].action = "BUY"
                   /\ signals[i].symbol = raw_signals[i].symbol

\* Three signals were confirmed with two days required: the first BUY became
\* a HOLD, the second BUY was passed through and the HOLD stayed a HOLD.
C40_Witness ==
    /\ min_consecutive_days = Some(2)
    /\ Len(raw_signals) = 3
    /\ raw_signals[1].action = "BUY"
    /\ signals[1].action = "HOLD"
    /\ signals[2].action = "BUY"
    /\ raw_signals[3].action = "HOLD"
    /\ signals[3].action = "HOLD"

\* C37: in every reachable state the trade log alternates BUY, SELL, BUY,
\* SELL, ... starting with a BUY; each SELL has the instrument and the
\* positive quantity of the BUY right before it; the log ends with a BUY
\* exactly when a position is open, and once run_backtest has returned there
\* are as many SELLs as BUYs.
C37_LedgerShape ==
    /\ \A i \in 1 .. Len(trades) :
          /\ trades[i].action = (IF i % 2 = 1 THEN "BUY" ELSE "SELL")
          /\ trades[i].quantity > 0
          /\ i % 2 = 0 =>
                /\ trades[i].symbol = trades[i - 1].symbol
                /\ trades[i].quantity = trades[i - 1].quantity
    /\ (Len(trades) % 2 = 1) <=> (positions # EmptyDict)
    /\ positions # EmptyDict =>
          /\ DOMAIN positions = {Last(trades).symbol}
          /\ positions[Last(trades).symbol].quantity = Last(trades).quantity
    /\ pc = "done" =>
          Cardinality({ i \in 1 .. Len(trades) : trades[i].action = "BUY" })
             = Cardinality({ i \in 1 .. Len(trades) : trades[i].action = "SELL" })

\* A log of a stop-loss exit followed, on the same day, by a new entry that is
\* still open.
C37_Witness ==
    /\ Len(trades) = 3
    /\ trades[2].reason = "STOP_LOSS"
    /\ trades[3].timestamp = trades[2].timestamp
    /\ positions # EmptyDict
    /\ pc = "loop"

\* The quoted price the run resolved for an instrument on date d (None when
\* there was none), and the days from first to last on which the stops were
\* evaluated: those with a price for both instruments.
QuoteOn(sym, d) ==
    get_price_for_date(IF sym = config.symbol THEN price_data.ung_price
                       ELSE price_data.kold_price, d)
EvaluationDays(first, last) ==
    { d \in first .. last :
        /\ ~IsNone(QuoteOn(config.symbol, d))
        /\ ~IsNone(QuoteOn(config.inverse_symbol, d)) }

\* The evaluation days, after an entry on entry_date at entry_price (mills)
\* and up to last, from the first one with a profit of 10% on.
DaysSinceActivation(sym, entry_date, entry_price, last) ==
    LET days == EvaluationDays(entry_date + 1, last)
        reached == { d \in days :
                       Val(QuoteOn(sym, d)) * 10000 >= 11 * entry_price }
    IN { d \in days : \E a \in reached : a <= d }

\* The highest quoted price of an instrument on a non-empty set of days.
HighestQuote(sym, days) ==
    CHOOSE p \in { Val(QuoteOn(sym, d)) : d \in days } :
        \A d \in days : Val(QuoteOn(sym, d)) <= p

\* The last day whose stop evaluation is over.
LastEvaluated == IF pc = "signal" THEN current_date ELSE current_date - 1

\* C38: while a trailing stop is active, after each day's stop evaluation
\* trailing_stop_price = (1 - trailing_stop_pct) x the highest price of the
\* stop-evaluation days since (and including) the activation day, and the
\* level is above stop_loss_price; a trailing-stop exit happens neither on the
\* activation day nor on a day that sets a new high.
C38_TrailingLevel ==
    /\ \A sym \in DOMAIN active_stops :
          active_stops[sym].trailing_stop =>
             LET stop_info == active_stops[sym]
                 days == DaysSinceActivation(sym, stop_info.entry_date,
                                            stop_info.entry_price, LastEvaluated)
             IN /\ days # {}
                /\ Val(stop_info.trailing_stop_price) =
                      HighestQuote(sym, days) * 1000
                         * (100 - config.trailing_stop_pct)
                /\ Val(stop_info.trailing_stop_price) > stop_info.stop_loss_price
    /\ \A i \in 1 .. Len(trades) :
          trades[i].reason = "TRAILING_STOP" =>
             LET sym == trades[i].symbol
                 exit == trades[i].timestamp
                 before == DaysSinceActivation(sym, trades[i - 1].timestamp,
                                              trades[i - 1].price, exit - 1)
             IN /\ before # {}
                /\ Val(QuoteOn(sym, exit)) < HighestQuote(sym, before)

\* The trailing stop was activated on one day and raised by a new high on the
\* next.
C38_Witness ==
    /\ pc = "signal"
    /\ current_date = 3
    /\ config.symbol \in DOMAIN active_stops
    /\ active_stops[config.symbol].trailing_stop
    /\ active_stops[config.symbol].entry_date = 1
    /\ QuoteOn(config.symbol, 2) = Some(112)
    /\ QuoteOn(config.symbol, 3) = Some(115)
    /\ active_stops[config.symbol].trailing_stop_price
          = Some(115 * 1000 * (100 - config.trailing_stop_pct))

\* The whole dollars of the target notional of the day's order when the
\* engine's cash is the given amount (mills).
NotionalOn(cash) ==
    calculate_position_size([Engine EXCEPT !.current_capital = cash],
                            Val(signal)).whole

\* C39: when a BUY signal arrives while a position is open, the position is
\* closed first and the order is sized (capital factor min(cash /
\* initial_capital, 1)) and cash-checked on the cash after the proceeds of that
\* close were credited: a recorded BUY has quantity floor(target / quoted
\* price) for the target computed on that cash and a quoted value within that
\* cash, and no BUY is recorded only if that quantity fails a check on that
\* cash.
C39_SizingAfterClosing ==
    [][BuySignalDue /\ positions # EmptyDict =>
         LET sym == Val(signal).symbol
             closes == SelectSeq(NewTrades, LAMBDA t : t.action = "SELL")
             proceeds == NetFlow(closes)
             cash_after_close == current_capital + proceeds
             target == NotionalOn(cash_after_close)
             quantity == target \div Quoted(sym)
         IN /\ Len(closes) = Cardinality(DOMAIN positions)
            /\ \A i \in 1 .. Len(closes) :
                  /\ closes[i].reason \in {"MUTUAL_EXCLUSIVITY", "SIGNAL"}
                  /\ \A j \in 1 .. Len(NewBuys) :
                        \E k \in 1 .. Len(NewTrades) :
                           /\ NewTrades[k] = NewBuys[j]
                           /\ \A m \in 1 .. k - 1 : NewTrades[m].action = "SELL"
            /\ Len(NewBuys) <= 1
            /\ Len(NewBuys) = 1 =>
                  /\ NewBuys[1].quantity = quantity
                  /\ quantity * Quoted(sym) * 1000 <= cash_after_close
                  /\ current_capital' =
                        cash_after_close - NewBuys[1].value
                                         - config.commission_per_trade
            /\ Len(NewBuys) = 0 =>
                  /\ \/ quantity <= 0
                     \/ quantity * Quoted(sym) < 100
                     \/ quantity * Quoted(sym) * 1000 > cash_after_close
                  /\ current_capital' = cash_after_close]_vars

\* A first order spent all of the cash; on a later day a BUY signal closed that
\* position and recorded an order whose value exceeds the cash of before the
\* close.
C39_Witness ==
    /\ Len(trades) >= 3
    /\ trades[1].action = "BUY"
    /\ trades[2].action = "SELL"
    /\ trades[2].reason \in {"MUTUAL_EXCLUSIVITY", "SIGNAL"}
    /\ trades[3].action = "BUY"
    /\ trades[3].timestamp = trades[2].timestamp
    /\ trades[3].value >
          config.initial_capital * 1000 - trades[1].value
                                        - config.commission_per_trade
====
